---- MODULE Spec2Model ----
(***************************************************************************)
(* Verification model of the trading automation engine                     *)
(* (backend/app/services): the brokerage session manager and request       *)
(* pipeline of KISClient, and the scheduled evaluate-and-submit cycle of   *)
(* AutoTradingScheduler.                                                   *)
(*                                                                         *)
(* Time is counted in ticks of 60 seconds (the brokerage's issuance        *)
(* window).  A coroutine runs atomically between two awaits, so every      *)
(* action below is the code between two suspension points.                 *)
(***************************************************************************)
EXTENDS Integers, Sequences, FiniteSets, TLC

VARIABLES
    \* ---- clock and configuration
    now,               \* datetime.now(), in ticks
    midnight,          \* the tick at which the calendar date changes
    mock,              \* settings.USE_MOCK_DATA
    \* ---- KISClient: disk, instances, class-level lock
    file,              \* ~/KIS/config/KIS<date>.yaml, by date
    token_file,        \* per instance: the date its token_file path names
    access_token,      \* per instance
    token_expires_at,  \* per instance
    lock,              \* KISClient._token_lock: its holder
    waiters,           \* coroutines suspended in _token_lock.acquire(), FIFO
    \* ---- callers (coroutines)
    pc, op, cl, stage, hdr, attempts, refreshes,
    calls,             \* operations started so far
    \* ---- brokerage
    issued,            \* the tokens the issuance endpoint has issued
    \* ---- observation of the last step
    sawIssue,          \* per caller: token issued by the guard's holder while it waited
    tev,               \* session-manager event of the last step
    ev,                \* completed client operation of the last step
    \* ---- AutoTradingScheduler._execute_auto_trading
    active_strategies, \* the strategies the cycle's query returned, by selection mode
    cyc,               \* position of the cycle
    sidx,              \* index of `strategy` in active_strategies
    codes, kidx,       \* stock_codes of the strategy, index of stock_code
    all_signals,       \* the list all_signals
    subidx,            \* index of `signal` in the submission loop
    orders,            \* the calls of place_order of this cycle
    evaluated,         \* the calls of execute_strategy of this cycle
    ranking,           \* the brokerage's ranking list during the cycle
    selection,         \* per strategy handled so far: how its stock selection ended
    log,               \* the records the cycle logged: <<level, event>>
    \* ---- one strategy instance (BaseStrategy subclass) and the engine's evaluation
    variant,           \* the class of the instance
    config,            \* its config: available_balance, allocation_ratio (percent)
    price_history,     \* self.price_history
    price_history_by_stock, \* RSIStrategy._price_history_by_stock
    initialized_stocks,     \* RSIStrategy._initialized_stocks
    macd_history,      \* MACDStrategy.macd_history
    signal_history,    \* MACDStrategy.signal_history
    own,               \* per stock code: the prices the instance was evaluated on
    seen_volume,       \* per stock code: the volumes of the snapshots evaluated
    prev_ind,          \* per stock code: the indicator pair of its previous evaluation
    sev,               \* the last call of execute_strategy / calculate_buy_quantity
    nevals,            \* evaluations so far
    \* ---- the AutoTradingScheduler singleton and the runs of its job
    is_running,        \* self.is_running
    scheduler,         \* self.scheduler: "none", or the state of the AsyncIOScheduler
    jobs,              \* the jobs registered with self.scheduler
    interval_seconds,  \* self.interval_seconds
    schedule_type,     \* self.schedule_type
    instances,         \* executions of the job in flight
    manual,            \* executions of POST /execute in flight
    schev,             \* the last call on the scheduler, or the last fire or run end
    \* ---- one call of StrategyEngine.get_auto_selected_stocks
    sel_in,            \* its arguments and the brokerage's answer
    sel_out,           \* what it returned
    \* ---- the registry of StrategyEngine
    strategies,        \* self.strategies: per name the registered strategy, or none
    regev,             \* the last call of register_strategy / unregister_strategy
    \* ---- one failed call on KISClient and what it logged
    fail_in,           \* the operation, how it failed, the flag, the account's length
    fail_out,           \* the records it wrote to the log
    \* ---- market hours: is_market_open applied to one timestamp
    mkt_in,            \* the timestamp passed, or the clock's reading when none is passed
    mkt_out,            \* the value is_market_open returned
    \* ---- provenance: where the bars behind a submitted order came from
    bar_synthetic,     \* per symbol, for each price of the RSI price list, whether it is synthetic
    submitted          \* the orders passed to place_order, with the provenance of their basis

tokVars == <<now, midnight, mock, file, token_file, access_token, token_expires_at,
             lock, waiters, pc, op, cl, stage, hdr, attempts, refreshes, calls,
             issued, sawIssue, tev, ev>>
cycVars == <<active_strategies, cyc, sidx, codes, kidx, all_signals, subidx, orders,
             evaluated, ranking, selection, log>>
stratVars == <<variant, config, price_history, price_history_by_stock,
               initialized_stocks, macd_history, signal_history, own, seen_volume,
               prev_ind, sev, nevals>>
schVars == <<is_running, scheduler, jobs, interval_seconds, schedule_type,
             instances, manual, schev>>
selVars == <<sel_in, sel_out>>
regVars == <<strategies, regev>>
logVars == <<fail_in, fail_out>>
mktVars == <<mkt_in, mkt_out>>
provVars == <<bar_synthetic, submitted>>
vars == <<tokVars, cycVars, stratVars, schVars, selVars, regVars, logVars, mktVars, provVars>>

-----------------------------------------------------------------------------
(* Bounds *)
MaxTime == 2        \* ticks the clock may advance
MaxIssue == 2       \* tokens the brokerage may issue in one run
MaxCalls == 3       \* operations started in one run
InitExpiry == 1     \* expiry tick of a token file found at start
MaxStrategies == 2  \* active strategies of a cycle
MaxCodes == 2       \* stock codes of the watchlist
Lookback == 2       \* the configured lookback period of the strategy instance
MaxPrice == 3       \* price levels of a snapshot
MaxEvals == 4       \* evaluations of the instance in one run
MaxBalance == 3     \* available_balance of the instance's config
MaxManual == 1      \* executions of POST /execute in flight
MaxEntries == 2     \* entries of a ranking answer

(* Program constants *)
TokenLife == 1440   \* expires_in default 86400 s, in ticks
IssueWindow == 1    \* the brokerage's limit of one issuance per minute, in ticks
MaxInstances == 1   \* max_instances of the job "auto_trading_job"
MinInterval == 10   \* the least interval POST /scheduler/start accepts, in seconds
DefaultInterval == 60  \* interval_seconds of a new AutoTradingScheduler
MinChangeRate == 3  \* min_change_rate of the default criteria, in percent
MinVolume == 1      \* min_volume of the default criteria, in units of 1,000,000 shares
RankLimit == 10     \* auto_selection_config's default limit
Oversold == 30      \* RSIStrategy.oversold
Overbought == 70    \* RSIStrategy.overbought
StdDev == 2         \* BollingerBandsStrategy.std_dev
LowerBandPct == 102 \* lower_band * 1.02, in percent
UpperBandPct == 98  \* upper_band * 0.98, in percent
MomentumThresholdPct == 5   \* momentum_threshold 0.05, in percent
VolumeFactorTenths == 8     \* avg_volume * 0.8, in tenths
DeviationThresholdPct == 3  \* deviation_threshold 0.03, in percent
MarketOpenMinute == 540     \* market_open = time(9, 0), in minutes of the day
MarketCloseMinute == 930    \* market_close = time(15, 30), in minutes of the day
FirstWeekendDay == 5        \* weekday() of Saturday; Monday is 0
KoreaOffset == 540          \* UTC offset of Asia/Seoul, in minutes

Procs == {"p1", "p2"}
Clients == {"a", "b"}
Dates == {0, 1}
StockCodes == 1..MaxCodes
EvalCodes == {c \in StockCodes : c <= 2}
OneCode == {c \in StockCodes : c <= 1}

NoToken == 0
NoExpiry == -1
NoDate == -1
NoProc == "none"
OldToken == 1

NoFile == [token |-> NoToken, valid |-> NoExpiry]
NoErr == [type |-> "none", msg |-> "none", status |-> 0, json |-> FALSE]

Date(t) == IF t >= midnight THEN 1 ELSE 0

-----------------------------------------------------------------------------
(* KISClient: pure parts *)

\* KISClient.is_token_valid on the memory record m = [at, ea]
IsTokenValid(m, t) ==
    IF m.at = NoToken \/ m.ea = NoExpiry THEN FALSE ELSE t < m.ea

\* KISClient._load_token_from_file: the returned token and the memory after it
LoadTokenFromFile(f, m, t) ==
    IF f.token = NoToken THEN [ret |-> NoToken, m |-> m]
    ELSE IF f.valid = NoExpiry THEN [ret |-> f.token, m |-> m]
    ELSE IF f.valid > t THEN [ret |-> f.token, m |-> [at |-> f.token, ea |-> f.valid]]
    ELSE [ret |-> NoToken, m |-> m]

\* KISClient._save_token_to_file
SaveTokenToFile(tok, expires_at) == [token |-> tok, valid |-> expires_at]

\* faulty variant: an expired in-memory token is not reused, a new one is requested
EnsureTokenNoReuse(f, m, t) ==
    IF IsTokenValid(m, t) /\ m.at # NoToken
    THEN [kind |-> "return", token |-> m.at, m |-> m, step |-> 1]
    ELSE LET l == LoadTokenFromFile(f, m, t) IN
         IF l.ret # NoToken /\ IsTokenValid(l.m, t)
         THEN [kind |-> "return", token |-> l.ret, m |-> l.m, step |-> 2]
         ELSE [kind |-> "refresh", token |-> NoToken, m |-> l.m, step |-> 4]

\* KISClient.ensure_token up to its first await: steps (1)-(3) return, (4) refreshes
EnsureToken(f, m, t) ==
    IF IsTokenValid(m, t) /\ m.at # NoToken
    THEN [kind |-> "return", token |-> m.at, m |-> m, step |-> 1]
    ELSE LET l == LoadTokenFromFile(f, m, t) IN
         IF l.ret # NoToken /\ IsTokenValid(l.m, t)
         THEN [kind |-> "return", token |-> l.ret, m |-> l.m, step |-> 2]
         ELSE IF l.m.at # NoToken
         THEN [kind |-> "return", token |-> l.m.at, m |-> l.m, step |-> 3]
         ELSE [kind |-> "refresh", token |-> NoToken, m |-> l.m, step |-> 4]

\* KISClient.get_access_token, under the lock, before the POST
GetAccessTokenEntry(f, m, t) ==
    LET l == LoadTokenFromFile(f, m, t) IN
    IF l.ret # NoToken /\ IsTokenValid(l.m, t)
    THEN [kind |-> "return", token |-> l.ret, m |-> l.m]
    ELSE [kind |-> "post", token |-> NoToken, m |-> l.m]

RateLimitError == [type |-> "ValueError", msg |-> "rate_limit", status |-> 403, json |-> TRUE]
AuthFailedError == [type |-> "ValueError", msg |-> "auth_failed", status |-> 403, json |-> TRUE]

IssueResponses == {"ok", "rate_limit", "forbidden", "http_500_json", "http_500_text", "transport"}

\* KISClient.get_access_token from the answer to the POST to its return or raise
IssueAnswer(r, f, m, t, tok) ==
    CASE r = "ok" ->
           [kind |-> "return", token |-> tok, err |-> NoErr,
            m |-> [at |-> tok, ea |-> t + TokenLife],
            f |-> SaveTokenToFile(tok, t + TokenLife)]
      [] r = "rate_limit" ->
           LET l == LoadTokenFromFile(f, m, t) IN
           IF l.ret # NoToken
           THEN [kind |-> "return", token |-> l.ret, err |-> NoErr,
                 m |-> [l.m EXCEPT !.at = l.ret], f |-> f]
           ELSE IF l.m.at # NoToken
           THEN [kind |-> "return", token |-> l.m.at, err |-> NoErr, m |-> l.m, f |-> f]
           ELSE [kind |-> "raise", token |-> NoToken, err |-> RateLimitError, m |-> l.m, f |-> f]
      [] r = "forbidden" ->
           [kind |-> "raise", token |-> NoToken, err |-> AuthFailedError, m |-> m, f |-> f]
      [] r \in {"http_500_json", "http_500_text"} ->
           [kind |-> "raise", token |-> NoToken,
            err |-> [type |-> "HTTPStatusError", msg |-> "http", status |-> 500,
                     json |-> (r = "http_500_json")],
            m |-> m, f |-> f]
      [] OTHER ->
           [kind |-> "raise", token |-> NoToken,
            err |-> [type |-> "httpx.TransportError", msg |-> "transport", status |-> 0,
                     json |-> FALSE],
            m |-> m, f |-> f]

\* faulty variant: a 403 that is not a rate limit is handled as the rate limit is
IssueResponseForbiddenAsRateLimit(r, f, m, t, tok) ==
    IssueAnswer(IF r = "forbidden" THEN "rate_limit" ELSE r, f, m, t, tok)

\* KISClient.get_access_token: the handling of the issuance endpoint's answer
IssueResponse(r, f, m, t, tok) == IssueAnswer(r, f, m, t, tok)

\* the test of ensure_token's handler: "1분당 1회" in str(e) or "요청 제한" in str(e)
HasRateMarker(err) == err.msg = "rate_limit"

\* KISClient.ensure_token after refresh_token returned or raised (res)
EnsureAfterRefresh(res, f, t) ==
    IF res.kind = "return"
    THEN [kind |-> "return", token |-> res.m.at, err |-> NoErr, m |-> res.m]
    ELSE IF res.err.type = "ValueError" /\ HasRateMarker(res.err)
    THEN LET l == LoadTokenFromFile(f, res.m, t) IN
         IF l.ret # NoToken
         THEN [kind |-> "return", token |-> l.ret, err |-> NoErr,
               m |-> [l.m EXCEPT !.at = l.ret]]
         ELSE IF l.m.at # NoToken
         THEN [kind |-> "return", token |-> l.m.at, err |-> NoErr, m |-> l.m]
         ELSE [kind |-> "raise", token |-> NoToken, err |-> res.err, m |-> l.m]
    ELSE [kind |-> "raise", token |-> NoToken, err |-> res.err, m |-> res.m]

RequestResponses == {"ok", "ok_plain", "rejected", "http_401", "http_500_json",
                     "http_500_text", "connect", "timeout"}

\* KISClient._request: what one answer of the brokerage leads to
ClassifyAnswer(r, retry) ==
    CASE r \in {"ok", "ok_plain"} -> [kind |-> "return", err |-> NoErr]
      [] r = "rejected" ->
           [kind |-> "raise",
            err |-> [type |-> "Exception", msg |-> "broker_rejected", status |-> 200,
                     json |-> TRUE]]
      [] r = "http_401" ->
           IF retry THEN [kind |-> "refresh", err |-> NoErr]
           ELSE [kind |-> "raise",
                 err |-> [type |-> "HTTPStatusError", msg |-> "http", status |-> 401,
                          json |-> TRUE]]
      [] r \in {"http_500_json", "http_500_text"} ->
           [kind |-> "raise",
            err |-> [type |-> "HTTPStatusError", msg |-> "http", status |-> 500,
                     json |-> (r = "http_500_json")]]
      [] r = "connect" ->
           [kind |-> "raise",
            err |-> [type |-> "ConnectionError", msg |-> "connect", status |-> 0,
                     json |-> FALSE]]
      [] OTHER ->
           [kind |-> "raise",
            err |-> [type |-> "TimeoutError", msg |-> "timeout", status |-> 0,
                     json |-> FALSE]]

\* faulty variant: the resubmission is sent with retry still enabled
RequestClassifyAlwaysRetry(r, retry) == ClassifyAnswer(r, TRUE)

\* faulty variant: the envelope's rt_cd is not inspected
RequestClassifyNoEnvelopeCheck(r, retry) ==
    IF r = "rejected" THEN [kind |-> "return", err |-> NoErr]
    ELSE ClassifyAnswer(r, retry)

\* KISClient._request with its retry flag
RequestClassify(r, retry) == ClassifyAnswer(r, retry)

TokenOps == {"ensure_token", "refresh_token"}
RequestOps == {"get_current_price", "get_account_balance", "get_orderbook"}
Ops == TokenOps \cup RequestOps

\* the except clauses of the client operations: TRUE when synthetic data is returned
Fallback(o, err, flag) ==
    CASE o = "get_account_balance" ->
           \/ err.type = "HTTPStatusError" /\ err.status = 500 /\ err.json /\ flag
           \/ err.type \in {"ConnectionError", "TimeoutError"} /\ flag
      [] o \in {"get_orderbook", "get_daily_chart"} ->
           err.type \in {"ConnectionError", "TimeoutError"} /\ flag
      [] OTHER -> FALSE

-----------------------------------------------------------------------------
(* One step of a caller is computed on a record s of the values it may     *)
(* change: m, f (memory and token file of the instance it uses), lock,     *)
(* waiters, issued, saw, tev, ev and its own pc, stage, hdr, att, ref.     *)

NoRes == [kind |-> "none", token |-> NoToken, err |-> NoErr]
Res(r) == [kind |-> r.kind, token |-> r.token, err |-> r.err]

NoTev == [p |-> NoProc, c |-> "none", via |-> "none", step |-> 0, resp |-> "none",
          gat |-> NoRes, ens |-> NoRes, waitedFor |-> NoToken,
          preMem |-> [at |-> NoToken, ea |-> NoExpiry], preFile |-> NoFile]
NoEv == [p |-> NoProc, op |-> "none", c |-> "none", kind |-> "none", token |-> NoToken,
         err |-> NoErr, env |-> "none", resp |-> "none", att |-> 0, ref |-> 0]

Mem(c) == [at |-> access_token[c], ea |-> token_expires_at[c]]
FileOf(c) == file[token_file[c]]

StepStart(p, c) ==
    [m |-> Mem(c), f |-> FileOf(c), lock |-> lock, waiters |-> waiters,
     issued |-> issued, saw |-> sawIssue,
     tev |-> [NoTev EXCEPT !.p = p, !.c = c, !.preMem = Mem(c), !.preFile = FileOf(c)],
     ev |-> NoEv, pc |-> pc[p], stage |-> stage[p], hdr |-> hdr[p],
     att |-> attempts[p], ref |-> refreshes[p], op |-> op[p], cl |-> c,
     resp |-> "none"]

\* an operation returns to its caller (kind: return, raise, or mock for synthetic data)
Complete(s, p, c, o, kind, token, err, env) ==
    [s EXCEPT !.pc = "idle", !.stage = "none", !.hdr = NoToken, !.att = 0, !.ref = 0,
              !.op = "none", !.cl = "none",
              !.ev = [p |-> p, op |-> o, c |-> c, kind |-> kind, token |-> token,
                      err |-> err, env |-> env, resp |-> s.resp,
                      att |-> s.att, ref |-> s.ref]]

\* an exception reaches the except clauses of the client operation
OpFail(s, p, c, o, err) ==
    IF Fallback(o, err, mock)
    THEN Complete(s, p, c, o, "mock", NoToken, err, "synthetic")
    ELSE Complete(s, p, c, o, "raise", NoToken, err, "none")

\* KISClient._request: headers are built from the instance's token, the call is sent
StartRequest(s, p) ==
    [s EXCEPT !.pc = "req1", !.stage = "req", !.hdr = s.m.at, !.att = 1]

\* the retry of _request: the same call with retry=False
Resubmit(s, p) ==
    [s EXCEPT !.pc = "req2", !.hdr = s.m.at, !.att = s.att + 1]

\* ensure_token has returned or raised (en) inside operation o
AfterEnsure(s, p, c, o, en) ==
    LET s1 == [s EXCEPT !.m = en.m, !.tev.ens = Res(en)] IN
    IF o = "ensure_token" THEN Complete(s1, p, c, o, en.kind, en.token, en.err, "none")
    ELSE IF en.kind = "return" THEN StartRequest(s1, p)
    ELSE OpFail(s1, p, c, o, en.err)

\* get_access_token has returned or raised (res) after the answer resp
AfterGetAccessToken(s, p, c, o, res, resp) ==
    LET s1 == [s EXCEPT !.m = res.m, !.saw[p] = NoToken,
                        !.tev.via = s.stage, !.tev.resp = resp, !.tev.gat = Res(res),
                        !.tev.waitedFor = s.saw[p]] IN
    CASE s.stage = "tok" -> Complete(s1, p, c, o, res.kind, res.token, res.err, "none")
      [] s.stage = "ens" -> AfterEnsure(s1, p, c, o, EnsureAfterRefresh(res, s1.f, now))
      [] OTHER -> IF res.kind = "return" THEN Resubmit(s1, p)
                  ELSE OpFail(s1, p, c, o, res.err)

\* get_access_token with the lock acquired: reuse a valid persisted token or POST
LockedSection(s, p, c, o) ==
    LET g == GetAccessTokenEntry(s.f, s.m, now) IN
    IF g.kind = "return"
    THEN AfterGetAccessToken(s, p, c, o,
             [kind |-> "return", token |-> g.token, err |-> NoErr, m |-> g.m], "file")
    ELSE [s EXCEPT !.m = g.m, !.lock = p, !.pc = "issuing"]

\* faulty variant: the lock does not exclude (a lock per call instead of one per class)
CanTakeLockUnguarded(lk, wq) == TRUE

\* async with KISClient._token_lock: taken at once when free and nobody waits
CanTakeLock(lk, wq) == lk = NoProc /\ wq = <<>>

EnterGetAccessToken(s, p, c, o) ==
    IF CanTakeLock(s.lock, s.waiters) THEN LockedSection(s, p, c, o)
    ELSE [s EXCEPT !.waiters = Append(@, p), !.pc = "wait_lock"]

\* the step's record written back to the variables
Commit(p, c, s) ==
    /\ access_token' = [access_token EXCEPT ![c] = s.m.at]
    /\ token_expires_at' = [token_expires_at EXCEPT ![c] = s.m.ea]
    /\ file' = [file EXCEPT ![token_file[c]] = s.f]
    /\ lock' = s.lock
    /\ waiters' = s.waiters
    /\ issued' = s.issued
    /\ sawIssue' = s.saw
    /\ tev' = s.tev
    /\ ev' = s.ev
    /\ pc' = [pc EXCEPT ![p] = s.pc]
    /\ stage' = [stage EXCEPT ![p] = s.stage]
    /\ hdr' = [hdr EXCEPT ![p] = s.hdr]
    /\ attempts' = [attempts EXCEPT ![p] = s.att]
    /\ refreshes' = [refreshes EXCEPT ![p] = s.ref]
    /\ op' = [op EXCEPT ![p] = s.op]
    /\ cl' = [cl EXCEPT ![p] = s.cl]

-----------------------------------------------------------------------------
(* Actions of the session manager and the request pipeline *)

\* the clock advances
Tick ==
    /\ now < MaxTime
    /\ now' = now + 1
    /\ tev' = NoTev /\ ev' = NoEv
    /\ UNCHANGED <<midnight, mock, file, token_file, access_token, token_expires_at,
                   lock, waiters, pc, op, cl, stage, hdr, attempts, refreshes, calls,
                   issued, sawIssue, cycVars, stratVars, schVars, selVars, regVars, logVars, mktVars, provVars>>

\* KISClient.__init__: the token file is named by today's date and loaded
Construct(c) ==
    /\ token_file[c] = NoDate
    /\ LET d == Date(now)
           l == LoadTokenFromFile(file[d], [at |-> NoToken, ea |-> NoExpiry], now)
       IN /\ token_file' = [token_file EXCEPT ![c] = d]
          /\ access_token' = [access_token EXCEPT ![c] = l.m.at]
          /\ token_expires_at' = [token_expires_at EXCEPT ![c] = l.m.ea]
    /\ tev' = NoTev /\ ev' = NoEv
    /\ UNCHANGED <<now, midnight, mock, file, lock, waiters, pc, op, cl, stage, hdr,
                   attempts, refreshes, calls, issued, sawIssue, cycVars, stratVars, schVars, selVars, regVars, logVars, mktVars, provVars>>

\* idle coroutines are interchangeable: a new call is given to the first idle one
MayStart(p) == pc[p] = "idle" /\ (pc["p1"] = "idle" => p = "p1")

\* a caller starts refresh_token / get_access_token on instance c
CallRefresh(p, c) ==
    /\ MayStart(p)
    /\ token_file[c] # NoDate
    /\ calls < MaxCalls /\ calls' = calls + 1
    /\ Commit(p, c, EnterGetAccessToken(
           [StepStart(p, c) EXCEPT !.stage = "tok", !.op = "refresh_token"],
           p, c, "refresh_token"))
    /\ UNCHANGED <<now, midnight, mock, token_file, cycVars, stratVars, schVars, selVars, regVars, logVars, mktVars, provVars>>

\* a caller starts ensure_token, or a client operation, which begins with ensure_token
CallEnsure(p, c, o) ==
    /\ MayStart(p)
    /\ token_file[c] # NoDate
    /\ calls < MaxCalls /\ calls' = calls + 1
    /\ LET s0 == [StepStart(p, c) EXCEPT !.stage = "ens", !.op = o]
           e == EnsureToken(s0.f, s0.m, now)
           s1 == [s0 EXCEPT !.m = e.m, !.tev.step = e.step, !.tev.via = "ens"]
       IN IF e.kind = "return"
          THEN Commit(p, c, AfterEnsure(s1, p, c, o,
                   [kind |-> "return", token |-> e.token, err |-> NoErr, m |-> e.m]))
          ELSE Commit(p, c, EnterGetAccessToken(s1, p, c, o))
    /\ UNCHANGED <<now, midnight, mock, token_file, cycVars, stratVars, schVars, selVars, regVars, logVars, mktVars, provVars>>

\* the lock is released to the first waiter
Acquire(p) ==
    /\ pc[p] = "wait_lock" /\ lock = NoProc
    /\ waiters # <<>> /\ Head(waiters) = p
    /\ LET c == cl[p]
           s0 == [StepStart(p, c) EXCEPT !.waiters = Tail(waiters)]
       IN Commit(p, c, LockedSection(s0, p, c, op[p]))
    /\ UNCHANGED <<now, midnight, mock, token_file, calls, cycVars, stratVars, schVars, selVars, regVars, logVars, mktVars, provVars>>

\* the issuance endpoint answers the POST of the lock's holder
IssueRespond(p, r) ==
    /\ pc[p] = "issuing" /\ lock = p
    /\ r = "ok" => Len(issued) < MaxIssue
    /\ LET c == cl[p]
           tok == OldToken + Len(issued) + 1
           s0 == StepStart(p, c)
           res == IssueResponse(r, s0.f, s0.m, now, tok)
           s1 == [s0 EXCEPT
                    !.f = res.f, !.lock = NoProc,
                    !.issued = IF r = "ok"
                               THEN Append(@, [tok |-> tok, at |-> now, c |-> c,
                                               via |-> s0.stage])
                               ELSE @,
                    !.saw = IF r = "ok"
                            THEN [q \in Procs |->
                                    IF \E i \in 1..Len(waiters) : waiters[i] = q
                                    THEN tok ELSE @[q]]
                            ELSE @]
       IN Commit(p, c, AfterGetAccessToken(s1, p, c, op[p], res, r))
    /\ UNCHANGED <<now, midnight, mock, token_file, calls, cycVars, stratVars, schVars, selVars, regVars, logVars, mktVars, provVars>>

\* the brokerage answers an attempt of _request
RequestRespond(p, r) ==
    /\ pc[p] \in {"req1", "req2"}
    /\ LET c == cl[p]
           o == op[p]
           s0 == [StepStart(p, c) EXCEPT !.resp = r]
           rc == RequestClassify(r, pc[p] = "req1")
       IN CASE rc.kind = "return" ->
                 Commit(p, c, Complete(s0, p, c, o, "return", NoToken, NoErr, r))
            [] rc.kind = "raise" -> Commit(p, c, OpFail(s0, p, c, o, rc.err))
            [] OTHER ->
                 Commit(p, c, EnterGetAccessToken([s0 EXCEPT !.ref = s0.ref + 1],
                                                  p, c, o))
    /\ UNCHANGED <<now, midnight, mock, token_file, calls, cycVars, stratVars, schVars, selVars, regVars, logVars, mktVars, provVars>>

NoInd == [def |-> FALSE, fast |-> [n |-> 0, d |-> 1], slow |-> [n |-> 0, d |-> 1]]
NoSev == [stock_code |-> 0, current_price |-> 0, volume |-> 0, held |-> 0, buy |-> FALSE,
          sell |-> FALSE, sell_called |-> FALSE, signal |-> "none", quantity |-> 0,
          hist |-> <<>>, prev |-> NoInd, ind |-> NoInd, sell_ind |-> NoInd,
          sell_prev |-> NoInd, requested |-> FALSE, loaded |-> FALSE, before |-> <<>>]

\* no strategy instance
StratIdle ==
    /\ variant = "none" /\ config = [available_balance |-> 0, allocation_ratio |-> 0]
    /\ price_history = <<>>
    /\ price_history_by_stock = [c \in StockCodes |-> <<>>]
    /\ initialized_stocks = {}
    /\ macd_history = <<>> /\ signal_history = <<>>
    /\ own = [c \in StockCodes |-> <<>>]
    /\ seen_volume = [c \in StockCodes |-> {}]
    /\ prev_ind = [c \in StockCodes |-> NoInd]
    /\ sev = NoSev /\ nevals = 0

CycIdle ==
    /\ active_strategies = <<>>
    /\ cyc = "idle" /\ sidx = 0 /\ codes = <<>> /\ kidx = 0
    /\ all_signals = <<>> /\ subidx = 0 /\ orders = <<>> /\ evaluated = {}
    /\ ranking = <<>> /\ selection = <<>> /\ log = {}

NoSchev == [op |-> "none", result |-> "none", was_running |-> FALSE,
            interval_before |-> DefaultInterval, type_before |-> "interval",
            jobs_before |-> 0, scheduler_before |-> "none",
            interval_arg |-> 0, type_arg |-> "none"]

\* the singleton after AutoTradingScheduler.__init__; no request in flight
SchIdle ==
    /\ is_running = FALSE /\ scheduler = "none" /\ jobs = 0
    /\ interval_seconds = DefaultInterval /\ schedule_type = "interval"
    /\ instances = 0 /\ manual = 0 /\ schev = NoSchev

NoSelIn == [selection_mode |-> "none", max_stocks |-> 0, min_change_rate |-> 0,
            min_volume |-> 0, failed |-> FALSE, output |-> <<>>]
NoSelOut == [done |-> FALSE, raised |-> FALSE, error |-> FALSE, stocks |-> <<>>,
             picked |-> <<>>]

\* no call of get_auto_selected_stocks
SelIdle == sel_in = NoSelIn /\ sel_out = NoSelOut

StrategyNames == {"s1", "s2"}
NoStrategy == [strategy_type |-> "none", period |-> 0]
NoRegev == [op |-> "none", name |-> "none", strategy |-> NoStrategy, raised |-> FALSE,
            before |-> [n \in StrategyNames |-> NoStrategy]]

\* StrategyEngine.__init__: no strategy registered
RegIdle == strategies = [n \in StrategyNames |-> NoStrategy] /\ regev = NoRegev

NoFailIn == [operation |-> "none", failure |-> "none", mock |-> FALSE,
             account |-> "ten"]
NoFailOut == [done |-> FALSE, records |-> {}]

\* no failed call
LogIdle == fail_in = NoFailIn /\ fail_out = NoFailOut

NoMktIn == [passed |-> FALSE, tzinfo |-> "Asia/Seoul", weekday |-> 0, minute |-> 0]
NoMktOut == [called |-> FALSE, ret |-> FALSE]

\* is_market_open not called
MktIdle == mkt_in = NoMktIn /\ mkt_out = NoMktOut

\* no chart loaded and no order submitted
ProvIdle == bar_synthetic = [c \in StockCodes |-> <<>>] /\ submitted = {}

\* the process starts with instance "a" constructed (a module-level singleton)
TokInit(flags) ==
    /\ CycIdle
    /\ SchIdle
    /\ ProvIdle
    /\ MktIdle
    /\ LogIdle
    /\ RegIdle
    /\ SelIdle
    /\ StratIdle
    /\ now = 0
    /\ mock \in flags
    /\ midnight \in {1, MaxTime + 1}
    /\ \E f0 \in {NoFile, [token |-> OldToken, valid |-> 0],
                  [token |-> OldToken, valid |-> InitExpiry]} :
           /\ file = [d \in Dates |-> IF d = 0 THEN f0 ELSE NoFile]
           /\ LET l == LoadTokenFromFile(f0, [at |-> NoToken, ea |-> NoExpiry], 0)
              IN /\ access_token = [c \in Clients |-> IF c = "a" THEN l.m.at ELSE NoToken]
                 /\ token_expires_at =
                        [c \in Clients |-> IF c = "a" THEN l.m.ea ELSE NoExpiry]
    /\ token_file = [c \in Clients |-> IF c = "a" THEN 0 ELSE NoDate]
    /\ lock = NoProc /\ waiters = <<>>
    /\ pc = [p \in Procs |-> "idle"]
    /\ op = [p \in Procs |-> "none"]
    /\ cl = [p \in Procs |-> "none"]
    /\ stage = [p \in Procs |-> "none"]
    /\ hdr = [p \in Procs |-> NoToken]
    /\ attempts = [p \in Procs |-> 0]
    /\ refreshes = [p \in Procs |-> 0]
    /\ calls = 0
    /\ issued = <<>>
    /\ sawIssue = [p \in Procs |-> NoToken]
    /\ tev = NoTev /\ ev = NoEv

(* Session manager under concurrent callers and several instances *)
SessionOps == {"ensure_token", "get_current_price"}
SessionResponses == {"ok", "http_401"}

TokNext ==
    \/ Tick
    \/ \E c \in Clients : Construct(c)
    \/ \E p \in Procs, c \in Clients : CallRefresh(p, c)
    \/ \E p \in Procs, c \in Clients, o \in SessionOps : CallEnsure(p, c, o)
    \/ \E p \in Procs : Acquire(p)
    \/ \E p \in Procs, r \in IssueResponses : IssueRespond(p, r)
    \/ \E p \in Procs, r \in SessionResponses : RequestRespond(p, r)

InitToken == TokInit({FALSE})

SpecToken == InitToken /\ [][TokNext]_vars

(* Request pipeline and client operations of one caller on one instance *)
ReqNext ==
    \/ Tick
    \/ \E o \in Ops \ {"refresh_token"} : CallEnsure("p1", "a", o)
    \/ \E r \in IssueResponses : IssueRespond("p1", r)
    \/ \E r \in RequestResponses : RequestRespond("p1", r)

InitRequest == TokInit(BOOLEAN)

SpecRequest == InitRequest /\ [][ReqNext]_vars

-----------------------------------------------------------------------------
(* AutoTradingScheduler._execute_auto_trading: one scheduled cycle *)

SelectionModes == {"watchlist", "ranking"}
SignalOutcomes == {"BUY", "none"}
OrderResults == {"ok", "error"}
RankingTypes == {"volume", "fluctuation", "market_cap", "other"}

SeqsUpTo(S, n) == UNION {[1..k -> S] : k \in 0..n}

\* the active rows of the watchlist, one row per stock code
Watchlists ==
    {w \in SeqsUpTo(StockCodes, MaxCodes) :
        \A i, j \in 1..Len(w) : i # j => w[i] # w[j]}

\* the next iteration of `for strategy in active_strategies`, or the end of the loop
NextStrategy ==
    IF sidx < Len(active_strategies)
    THEN cyc' = "select" /\ sidx' = sidx + 1
    ELSE cyc' = "done" /\ sidx' = sidx

\* faulty variant: the closed market is logged and the cycle goes on
ExecuteAutoTradingNoGate(market_status, strats, rank_output) ==
    /\ cyc = "idle"
    /\ all_signals' = <<>> /\ orders' = <<>> /\ evaluated' = {}
    /\ ranking' = rank_output /\ selection' = <<>>
    /\ codes' = <<>> /\ kidx' = 0 /\ subidx' = 0
    /\ active_strategies' = strats
    /\ IF strats = <<>>
       THEN cyc' = "done" /\ sidx' = 0
       ELSE cyc' = "select" /\ sidx' = 1
    /\ log' = IF market_status THEN {<<"info", "market_open">>}
              ELSE {<<"info", "market_closed">>}
    /\ UNCHANGED <<tokVars, stratVars, schVars, selVars, regVars, logVars, mktVars, provVars>>

\* the job fires: the market gate, the query of the active strategies
ExecuteAutoTrading(market_status, strats, rank_output) ==
    /\ cyc = "idle"
    /\ all_signals' = <<>> /\ orders' = <<>> /\ evaluated' = {}
    /\ ranking' = rank_output /\ selection' = <<>>
    /\ codes' = <<>> /\ kidx' = 0 /\ subidx' = 0
    /\ IF ~market_status
       THEN /\ cyc' = "done" /\ sidx' = 0 /\ active_strategies' = <<>>
            /\ log' = {<<"info", "market_closed">>}
       ELSE /\ active_strategies' = strats
            /\ IF strats = <<>>
               THEN /\ cyc' = "done" /\ sidx' = 0
                    /\ log' = {<<"info", "market_open">>, <<"info", "no_active_strategies">>}
               ELSE /\ cyc' = "select" /\ sidx' = 1
                    /\ log' = {<<"info", "market_open">>}
    /\ UNCHANGED <<tokVars, stratVars, schVars, selVars, regVars, logVars, mktVars, provVars>>

\* the parameters KISClient's ranking methods declare
RankParameters(ranking_type) ==
    IF ranking_type = "market_cap" THEN {"market_code"}
    ELSE {"market_code", "sort_type"}

\* the keywords the cycle passes to them
RankArguments(ranking_type) ==
    CASE ranking_type = "volume" ->
           {"fid_cond_mrkt_div_code", "fid_cond_scr_div_code", "fid_input_iscd",
            "fid_div_cls_code", "fid_blng_cls_code", "fid_trgt_cls_code",
            "fid_trgt_exls_cls_code", "fid_input_price_1", "fid_input_price_2",
            "fid_vol_cnt", "fid_input_date_1"}
      [] ranking_type = "fluctuation" ->
           {"fid_cond_mrkt_div_code", "fid_cond_scr_div_code", "fid_input_iscd",
            "fid_rank_sort_cls_code", "fid_input_cnt_1", "fid_prc_cls_code",
            "fid_input_price_1", "fid_input_price_2", "fid_vol_cnt",
            "fid_trgt_cls_code", "fid_trgt_exls_cls_code", "fid_div_cls_code",
            "fid_rsfl_rate1", "fid_rsfl_rate2"}
      [] OTHER ->
           {"fid_cond_mrkt_div_code", "fid_cond_scr_div_code", "fid_input_iscd",
            "fid_div_cls_code", "fid_trgt_cls_code", "fid_trgt_exls_cls_code",
            "fid_input_price_1", "fid_input_price_2", "fid_vol_cnt"}

\* a keyword the method does not declare raises TypeError at the call
RankCallRaises(ranking_type) ==
    ~(RankArguments(ranking_type) \subseteq RankParameters(ranking_type))

Min(a, b) == IF a < b THEN a ELSE b

\* the ranking branch: [kind, codes]
RankSelect(ranking_type, rank_output) ==
    IF ranking_type \notin {"volume", "fluctuation", "market_cap"}
    THEN [kind |-> "continue", codes |-> <<>>]
    ELSE IF RankCallRaises(ranking_type)
    THEN [kind |-> "continue", codes |-> <<>>]
    ELSE IF rank_output = <<>>
    THEN [kind |-> "continue", codes |-> <<>>]
    ELSE [kind |-> "codes",
          codes |-> SubSeq(rank_output, 1, Min(RankLimit, Len(rank_output)))]

\* what the cycle logs when the selection of a strategy ends as `how`
SelectionLog(how) ==
    CASE how = "raised" -> {<<"error", "cycle_failed">>}
      [] how = "rank_failed" -> {<<"error", "ranking_failed">>}
      [] how = "no_codes" -> {<<"info", "no_codes">>}
      [] how = "not_registered" -> {<<"error", "registration_failed">>}
      [] OTHER -> {}

\* the symbols of the strategy and its registration in the engine; `raises`:
\* the watchlist query, or KISClient() of the ranking branch, raises, which
\* no handler inside the loop catches, so that the cycle's own handler ends
\* the cycle
SelectStocks(watchlist_items, ranking_type, registered, raises) ==
    /\ cyc = "select"
    /\ LET mode == active_strategies[sidx]
           rk == RankSelect(ranking_type, ranking)
           stock_codes == IF mode = "watchlist" THEN watchlist_items ELSE rk.codes
           how == IF raises THEN "raised"
                  ELSE IF mode = "ranking" /\ rk.kind = "continue" THEN "rank_failed"
                  ELSE IF stock_codes = <<>> THEN "no_codes"
                  ELSE IF ~registered THEN "not_registered"
                  ELSE "evaluate"
       IN /\ selection' = Append(selection, how)
          /\ log' = log \cup SelectionLog(how)
          /\ IF how = "raised"
             THEN cyc' = "done" /\ sidx' = sidx /\ codes' = <<>> /\ kidx' = 0
             ELSE IF how # "evaluate"
             THEN NextStrategy /\ codes' = <<>> /\ kidx' = 0
             ELSE /\ cyc' = "execute" /\ codes' = stock_codes /\ kidx' = 1
                  /\ sidx' = sidx
    /\ UNCHANGED <<active_strategies, all_signals, subidx, orders, evaluated, ranking>>
    /\ UNCHANGED <<tokVars, stratVars, schVars, selVars, regVars, logVars, mktVars, provVars>>

\* one iteration of `for stock_code in stock_codes`, and the entry of the
\* submission loop that follows it inside the strategy's iteration
ExecuteStrategy(outcome) ==
    /\ cyc = "execute"
    /\ LET stock_code == codes[kidx]
           signal == [id |-> Len(all_signals) + 1, strategy |-> sidx,
                      stock_code |-> stock_code, action |-> outcome]
           sigs == IF outcome = "none" THEN all_signals
                   ELSE Append(all_signals, signal)
       IN /\ all_signals' = sigs
          /\ evaluated' = evaluated \cup {<<sidx, stock_code>>}
          /\ IF kidx < Len(codes)
             THEN /\ kidx' = kidx + 1
                  /\ UNCHANGED <<cyc, sidx, subidx>>
             ELSE /\ kidx' = kidx
                  /\ IF sigs = <<>>
                     THEN NextStrategy /\ subidx' = 0
                     ELSE cyc' = "submit" /\ subidx' = 1 /\ sidx' = sidx
    /\ UNCHANGED <<active_strategies, codes, orders, ranking, selection, log>>
    /\ UNCHANGED <<tokVars, stratVars, schVars, selVars, regVars, logVars, mktVars, provVars>>

\* one iteration of `for signal in all_signals`: place_order, its failure logged
PlaceOrder(result) ==
    /\ cyc = "submit"
    /\ orders' = Append(orders, [signal |-> all_signals[subidx], result |-> result])
    /\ log' = log \cup (IF result = "error" THEN {<<"error", "order_failed">>} ELSE {})
    /\ IF subidx < Len(all_signals)
       THEN subidx' = subidx + 1 /\ UNCHANGED <<cyc, sidx>>
       ELSE subidx' = 0 /\ NextStrategy
    /\ UNCHANGED <<active_strategies, codes, kidx, all_signals, evaluated,
                   ranking, selection>>
    /\ UNCHANGED <<tokVars, stratVars, schVars, selVars, regVars, logVars, mktVars, provVars>>

\* the cycle returns; the job waits for its next fire
EndCycle ==
    /\ cyc = "done"
    /\ cyc' = "idle" /\ active_strategies' = <<>> /\ sidx' = 0
    /\ codes' = <<>> /\ kidx' = 0 /\ all_signals' = <<>> /\ subidx' = 0
    /\ orders' = <<>> /\ evaluated' = {}
    /\ ranking' = <<>> /\ selection' = <<>> /\ log' = {}
    /\ UNCHANGED <<tokVars, stratVars, schVars, selVars, regVars, logVars, mktVars, provVars>>

CycNext ==
    \/ \E market_status \in BOOLEAN,
          strats \in SeqsUpTo(SelectionModes, MaxStrategies),
          rank_output \in Watchlists :
           ExecuteAutoTrading(market_status, strats, rank_output)
    \/ \E watchlist_items \in Watchlists, ranking_type \in RankingTypes,
          registered \in BOOLEAN, raises \in BOOLEAN :
           SelectStocks(watchlist_items, ranking_type, registered, raises)
    \/ \E outcome \in SignalOutcomes : ExecuteStrategy(outcome)
    \/ \E result \in OrderResults : PlaceOrder(result)
    \/ EndCycle

InitCycle == TokInit({TRUE})

SpecCycle == InitCycle /\ [][CycNext]_vars

(* cycles of a deployment with at most one active strategy *)
OneStrategy == {strats \in SeqsUpTo(SelectionModes, MaxStrategies) : Len(strats) <= 1}

SingleNext ==
    \/ \E market_status \in BOOLEAN, strats \in OneStrategy,
          rank_output \in Watchlists :
           ExecuteAutoTrading(market_status, strats, rank_output)
    \/ \E watchlist_items \in Watchlists, ranking_type \in RankingTypes,
          registered \in BOOLEAN, raises \in BOOLEAN :
           SelectStocks(watchlist_items, ranking_type, registered, raises)
    \/ \E outcome \in SignalOutcomes : ExecuteStrategy(outcome)
    \/ \E result \in OrderResults : PlaceOrder(result)
    \/ EndCycle

InitSingle == TokInit({TRUE})

SpecSingle == InitSingle /\ [][SingleNext]_vars

-----------------------------------------------------------------------------
(* Strategies: exact arithmetic on rationals [n, d], d > 0, in lowest terms *)

RECURSIVE GCD(_, _)
GCD(a, b) == IF b = 0 THEN a ELSE GCD(b, a % b)

Abs(x) == IF x < 0 THEN -x ELSE x
Max(a, b) == IF a > b THEN a ELSE b

Rat(n, d) == LET g == GCD(Abs(n), d) IN [n |-> n \div g, d |-> d \div g]
FromInt(x) == [n |-> x, d |-> 1]
RAdd(a, b) == Rat(a.n * b.d + b.n * a.d, a.d * b.d)
RSub(a, b) == Rat(a.n * b.d - b.n * a.d, a.d * b.d)
RMul(a, b) == Rat(a.n * b.n, a.d * b.d)
RLt(a, b) == a.n * b.d < b.n * a.d
RLe(a, b) == a.n * b.d <= b.n * a.d

RECURSIVE Sum(_)
Sum(q) == IF q = <<>> THEN 0 ELSE Head(q) + Sum(Tail(q))

RECURSIVE RSum(_)
RSum(q) == IF q = <<>> THEN FromInt(0) ELSE RAdd(Head(q), RSum(Tail(q)))

\* prices[-k:]
LastN(q, k) == SubSeq(q, Max(1, Len(q) - k + 1), Len(q))
\* prices[-k-1:-1]
PrevN(q, k) == SubSeq(q, Max(1, Len(q) - k), Len(q) - 1)
\* prices[:k], prices[k:]
FirstN(q, k) == SubSeq(q, 1, Min(k, Len(q)))
DropN(q, k) == SubSeq(q, Min(k, Len(q)) + 1, Len(q))

\* list.append(x) followed by one pop(0) when the list is longer than cap
AppendCap(q, x, cap) ==
    LET a == Append(q, x) IN IF Len(a) > cap THEN Tail(a) ELSE a

(* the periods of the instance's config *)
ShortPeriod == Lookback - 1
LongPeriod == Lookback
RsiPeriod == Lookback
BandPeriod == Lookback
FastPeriod == Lookback - 1
SlowPeriod == Lookback
SignalPeriod == Lookback
MomentumPeriod == Lookback - 1
MeanPeriod == Lookback

Variants == {"moving_average_crossover", "rsi", "bollinger_bands", "macd",
             "momentum", "mean_reversion"}

\* the instance's mutable fields as one record
StratState == [ph |-> price_history, by |-> price_history_by_stock,
               init |-> initialized_stocks, mh |-> macd_history,
               sh |-> signal_history]

Ind(fast, slow) == [def |-> TRUE, fast |-> fast, slow |-> slow]
Answer(ret, st, hist, ind, prev) ==
    [ret |-> ret, st |-> st, hist |-> hist, ind |-> ind, prev |-> prev]

(* MovingAverageCrossoverStrategy *)
MovingAverages(h) ==
    LET short_ma == Rat(Sum(LastN(h, ShortPeriod)), ShortPeriod)
        long_ma == Rat(Sum(LastN(h, LongPeriod)), LongPeriod)
        prev_short_ma == IF Len(h) > ShortPeriod
                         THEN Rat(Sum(PrevN(h, ShortPeriod)), ShortPeriod)
                         ELSE short_ma
        prev_long_ma == IF Len(h) > LongPeriod
                        THEN Rat(Sum(PrevN(h, LongPeriod)), LongPeriod)
                        ELSE long_ma
    IN [ind |-> Ind(short_ma, long_ma), prev |-> Ind(prev_short_ma, prev_long_ma)]

MovingAverageShouldBuy(st, stock_code, md) ==
    IF md.current_price <= 0 THEN Answer(FALSE, st, st.ph, NoInd, NoInd)
    ELSE LET h == AppendCap(st.ph, md.current_price, LongPeriod)
             st1 == [st EXCEPT !.ph = h]
             ma == MovingAverages(h)
         IN IF Len(h) < LongPeriod THEN Answer(FALSE, st1, h, NoInd, NoInd)
            ELSE Answer(RLt(ma.ind.slow, ma.ind.fast) /\ RLe(ma.prev.fast, ma.prev.slow),
                        st1, h, ma.ind, ma.prev)

MovingAverageShouldSell(st, stock_code, md) ==
    IF md.current_price <= 0 \/ Len(st.ph) < LongPeriod
    THEN Answer(FALSE, st, st.ph, NoInd, NoInd)
    ELSE LET ma == MovingAverages(st.ph)
         IN Answer(RLt(ma.ind.fast, ma.ind.slow) /\ RLe(ma.prev.slow, ma.prev.fast),
                   st, st.ph, ma.ind, ma.prev)

(* RSIStrategy *)
RECURSIVE Gains(_)
Gains(q) ==
    IF Len(q) < 2 THEN <<>>
    ELSE LET change == q[2] - q[1]
         IN <<IF change > 0 THEN change ELSE 0>> \o Gains(Tail(q))

RECURSIVE Losses(_)
Losses(q) ==
    IF Len(q) < 2 THEN <<>>
    ELSE LET change == q[2] - q[1]
         IN <<IF change > 0 THEN 0 ELSE Abs(change)>> \o Losses(Tail(q))

\* faulty variant: the default value is returned when the average loss is zero
CalculateRsiNoSaturation(prices) ==
    IF Len(prices) < RsiPeriod + 1 THEN FromInt(50)
    ELSE LET gain == Sum(LastN(Gains(prices), RsiPeriod))
             loss == Sum(LastN(Losses(prices), RsiPeriod))
         IN IF loss = 0 THEN FromInt(50) ELSE Rat(100 * gain, gain + loss)

\* the divisors calculate_rsi divides by on the way to its result: the period
\* (twice), avg_loss and 1 + rs, the last two as multiples by the period and by
\* the period over the loss, which are zero when the divisor is
RsiDivisors(prices) ==
    IF Len(prices) < RsiPeriod + 1 THEN {}
    ELSE LET gain == Sum(LastN(Gains(prices), RsiPeriod))
             loss == Sum(LastN(Losses(prices), RsiPeriod))
         IN {RsiPeriod} \cup (IF loss = 0 THEN {} ELSE {loss, loss + gain})

\* calculate_rsi: 100 - 100 / (1 + avg_gain / avg_loss) = 100 * gain / (gain + loss)
CalculateRsi(prices) ==
    IF Len(prices) < RsiPeriod + 1 THEN FromInt(50)
    ELSE LET gain == Sum(LastN(Gains(prices), RsiPeriod))
             loss == Sum(LastN(Losses(prices), RsiPeriod))
         IN IF loss = 0 THEN FromInt(100) ELSE Rat(100 * gain, gain + loss)

\* _initialize_price_history: closes is the list of positive closes of the chart,
\* oldest first; an empty list stands for a failed or empty answer
InitializePriceHistory(st, stock_code, closes) ==
    IF stock_code \in st.init THEN st
    ELSE IF Len(closes) >= RsiPeriod + 1
    THEN [st EXCEPT !.by[stock_code] = closes, !.init = @ \cup {stock_code}]
    ELSE st

RsiShouldBuy(st, stock_code, md) ==
    IF md.current_price <= 0 THEN Answer(FALSE, st, st.by[stock_code], NoInd, NoInd)
    ELSE LET price_list == AppendCap(st.by[stock_code], md.current_price, RsiPeriod * 2)
             st1 == [st EXCEPT !.by[stock_code] = price_list]
         IN IF Len(price_list) < RsiPeriod + 1
            THEN Answer(FALSE, st1, price_list, NoInd, NoInd)
            ELSE LET rsi == CalculateRsi(price_list)
                 IN Answer(RLt(rsi, FromInt(Oversold)), st1, price_list,
                           Ind(rsi, FromInt(Oversold)), NoInd)

RsiShouldSell(st, stock_code, md) ==
    LET price_list == st.by[stock_code]
    IN IF md.current_price <= 0 \/ Len(price_list) < RsiPeriod + 1
       THEN Answer(FALSE, st, price_list, NoInd, NoInd)
       ELSE LET rsi == CalculateRsi(price_list)
            IN Answer(RLt(FromInt(Overbought), rsi), st, price_list,
                      Ind(rsi, FromInt(Overbought)), NoInd)

(* BollingerBandsStrategy: with S the sum and Q the sum of squares of the last
   BandPeriod prices, sma = S / P and std = sqrt(P * Q - S * S) / P; a comparison
   with a band is decided on the squares *)
RECURSIVE SumSq(_)
SumSq(q) == IF q = <<>> THEN 0 ELSE Head(q) * Head(q) + SumSq(Tail(q))

BandVariance(h) ==
    LET recent == LastN(h, BandPeriod)
    IN BandPeriod * SumSq(recent) - Sum(recent) * Sum(recent)

\* current_price <= lower_band * 1.02
NearLowerBand(h, current_price) ==
    LET r == LowerBandPct * Sum(LastN(h, BandPeriod)) - 100 * BandPeriod * current_price
        k == LowerBandPct * StdDev
    IN r >= 0 /\ k * k * BandVariance(h) <= r * r

\* current_price >= upper_band * 0.98
NearUpperBand(h, current_price) ==
    LET r == 100 * BandPeriod * current_price - UpperBandPct * Sum(LastN(h, BandPeriod))
        k == UpperBandPct * StdDev
    IN r >= 0 /\ k * k * BandVariance(h) <= r * r

BollingerShouldBuy(st, stock_code, md) ==
    IF md.current_price <= 0 THEN Answer(FALSE, st, st.ph, NoInd, NoInd)
    ELSE LET h == AppendCap(st.ph, md.current_price, BandPeriod * 2)
             st1 == [st EXCEPT !.ph = h]
         IN IF Len(h) < BandPeriod THEN Answer(FALSE, st1, h, NoInd, NoInd)
            ELSE Answer(NearLowerBand(h, md.current_price), st1, h, NoInd, NoInd)

BollingerShouldSell(st, stock_code, md) ==
    IF md.current_price <= 0 \/ Len(st.ph) < BandPeriod
    THEN Answer(FALSE, st, st.ph, NoInd, NoInd)
    ELSE Answer(NearUpperBand(st.ph, md.current_price), st, st.ph, NoInd, NoInd)

(* MomentumStrategy *)
\* calculate_momentum(prices) compared with a threshold in percent: the sign of
\* 100 * (current - past) - pct * past, 0 when the list is too short
MomentumOver(prices, pct) ==
    IF Len(prices) < MomentumPeriod + 1 THEN 0 > pct
    ELSE LET current == prices[Len(prices)]
             past == prices[Len(prices) - MomentumPeriod]
         IN IF past = 0 THEN 0 > pct ELSE 100 * (current - past) > pct * past

MomentumUnder(prices, pct) ==
    IF Len(prices) < MomentumPeriod + 1 THEN 0 < pct
    ELSE LET current == prices[Len(prices)]
             past == prices[Len(prices) - MomentumPeriod]
         IN IF past = 0 THEN 0 < pct ELSE 100 * (current - past) < pct * past

MomentumShouldBuy(st, stock_code, md) ==
    IF md.current_price <= 0 THEN Answer(FALSE, st, st.ph, NoInd, NoInd)
    ELSE LET h == AppendCap(st.ph, md.current_price, MomentumPeriod * 2)
             st1 == [st EXCEPT !.ph = h]
         IN IF Len(h) < MomentumPeriod + 1 THEN Answer(FALSE, st1, h, NoInd, NoInd)
            ELSE Answer(/\ MomentumOver(h, MomentumThresholdPct)
                        /\ 10 * md.volume * Len(h) > VolumeFactorTenths * Sum(h),
                        st1, h, NoInd, NoInd)

MomentumShouldSell(st, stock_code, md) ==
    IF md.current_price <= 0 \/ Len(st.ph) < MomentumPeriod + 1
    THEN Answer(FALSE, st, st.ph, NoInd, NoInd)
    ELSE Answer(MomentumUnder(st.ph, -MomentumThresholdPct), st, st.ph, NoInd, NoInd)

(* MeanReversionStrategy *)
\* faulty variant: the deviation is taken above the average
MeanReversionShouldBuyAbove(st, stock_code, md) ==
    IF md.current_price <= 0 THEN Answer(FALSE, st, st.ph, NoInd, NoInd)
    ELSE LET h == AppendCap(st.ph, md.current_price, MeanPeriod * 2)
             st1 == [st EXCEPT !.ph = h]
             total == Sum(LastN(h, MeanPeriod))
         IN IF Len(h) < MeanPeriod THEN Answer(FALSE, st1, h, NoInd, NoInd)
            ELSE Answer(100 * (MeanPeriod * md.current_price - total)
                            > DeviationThresholdPct * total,
                        st1, h, NoInd, NoInd)

MeanReversionShouldBuy(st, stock_code, md) ==
    IF md.current_price <= 0 THEN Answer(FALSE, st, st.ph, NoInd, NoInd)
    ELSE LET h == AppendCap(st.ph, md.current_price, MeanPeriod * 2)
             st1 == [st EXCEPT !.ph = h]
             total == Sum(LastN(h, MeanPeriod))
         IN IF Len(h) < MeanPeriod THEN Answer(FALSE, st1, h, NoInd, NoInd)
            ELSE Answer(100 * (total - MeanPeriod * md.current_price)
                            > DeviationThresholdPct * total,
                        st1, h, NoInd, NoInd)

MeanReversionShouldSell(st, stock_code, md) ==
    IF md.current_price <= 0 \/ Len(st.ph) < MeanPeriod
    THEN Answer(FALSE, st, st.ph, NoInd, NoInd)
    ELSE LET total == Sum(LastN(st.ph, MeanPeriod))
         IN Answer(100 * (MeanPeriod * md.current_price - total)
                       > DeviationThresholdPct * total,
                   st, st.ph, NoInd, NoInd)

(* MACDStrategy *)
RECURSIVE EmaFold(_, _, _)
EmaFold(ema, rest, multiplier) ==
    IF rest = <<>> THEN ema
    ELSE EmaFold(RAdd(RMul(Head(rest), multiplier),
                      RMul(ema, RSub(FromInt(1), multiplier))),
                 Tail(rest), multiplier)

\* calculate_ema on a list of rationals
CalculateEma(prices, period) ==
    IF Len(prices) < period
    THEN IF prices = <<>> THEN FromInt(0)
         ELSE RMul(RSum(prices), Rat(1, Len(prices)))
    ELSE EmaFold(RMul(RSum(FirstN(prices, period)), Rat(1, period)),
                 DropN(prices, period), Rat(2, period + 1))

ToRats(q) == [i \in 1..Len(q) |-> FromInt(q[i])]

\* calculate_macd: [none, macd, nosignal, signal, mh]; it appends to macd_history
NoMacd(mh0) ==
    [none |-> TRUE, macd |-> FromInt(0), nosignal |-> TRUE, signal |-> FromInt(0),
     mh |-> mh0]

\* fast_ema - slow_ema
MacdValue(prices) ==
    RSub(CalculateEma(ToRats(prices), FastPeriod), CalculateEma(ToRats(prices), SlowPeriod))

\* the signal of calculate_macd, mh being macd_history after the append
MacdSignal(macd, mh) ==
    IF Len(mh) < SignalPeriod
    THEN [none |-> FALSE, macd |-> macd, nosignal |-> TRUE, signal |-> FromInt(0),
          mh |-> mh]
    ELSE [none |-> FALSE, macd |-> macd, nosignal |-> FALSE,
          signal |-> CalculateEma(mh, SignalPeriod), mh |-> mh]

MacdAppended(macd, mh0) == MacdSignal(macd, AppendCap(mh0, macd, SignalPeriod * 2))

CalculateMacd(prices, mh0) ==
    IF Len(prices) < SlowPeriod THEN NoMacd(mh0)
    ELSE MacdAppended(MacdValue(prices), mh0)

\* should_buy from the comparison on: the signal is appended to signal_history
MacdBuyCross(st, h, m, prev_macd, prev_signal) ==
    Answer(RLt(m.signal, m.macd) /\ RLe(prev_macd, prev_signal),
           [st EXCEPT !.ph = h, !.mh = m.mh,
                      !.sh = AppendCap(@, m.signal, SignalPeriod * 2)],
           h, Ind(m.macd, m.signal), Ind(prev_macd, prev_signal))

\* should_buy from the answer m of calculate_macd on
MacdBuyAnswer(st, h, m) ==
    IF m.none \/ m.nosignal \/ Len(m.mh) < 2
    THEN Answer(FALSE, [st EXCEPT !.ph = h, !.mh = m.mh], h, NoInd, NoInd)
    ELSE MacdBuyCross(st, h, m, m.mh[Len(m.mh) - 1],
                      IF st.sh # <<>> THEN st.sh[Len(st.sh)] ELSE m.signal)

\* should_buy from the appended history h on
MacdBuyAppended(st, h) ==
    IF Len(h) < SlowPeriod THEN Answer(FALSE, [st EXCEPT !.ph = h], h, NoInd, NoInd)
    ELSE MacdBuyAnswer(st, h, CalculateMacd(h, st.mh))

MacdShouldBuy(st, stock_code, md) ==
    IF md.current_price <= 0 THEN Answer(FALSE, st, st.ph, NoInd, NoInd)
    ELSE MacdBuyAppended(st, AppendCap(st.ph, md.current_price, SlowPeriod * 2))

MacdSellCross(st, m, prev_macd, prev_signal) ==
    Answer(RLt(m.macd, m.signal) /\ RLe(prev_signal, prev_macd),
           [st EXCEPT !.mh = m.mh], st.ph, Ind(m.macd, m.signal),
           Ind(prev_macd, prev_signal))

\* should_sell from the answer m of calculate_macd on
MacdSellAnswer(st, m) ==
    IF m.none \/ m.nosignal \/ Len(m.mh) < 2
    THEN Answer(FALSE, [st EXCEPT !.mh = m.mh], st.ph, NoInd, NoInd)
    ELSE MacdSellCross(st, m, m.mh[Len(m.mh) - 1],
                       IF st.sh # <<>> THEN st.sh[Len(st.sh)] ELSE m.signal)

MacdShouldSell(st, stock_code, md) ==
    IF md.current_price <= 0 \/ Len(st.ph) < SlowPeriod
    THEN Answer(FALSE, st, st.ph, NoInd, NoInd)
    ELSE MacdSellAnswer(st, CalculateMacd(st.ph, st.mh))

(* the variant's methods *)
ShouldBuy(v, st, stock_code, md) ==
    CASE v = "moving_average_crossover" -> MovingAverageShouldBuy(st, stock_code, md)
      [] v = "rsi" -> RsiShouldBuy(st, stock_code, md)
      [] v = "bollinger_bands" -> BollingerShouldBuy(st, stock_code, md)
      [] v = "macd" -> MacdShouldBuy(st, stock_code, md)
      [] v = "momentum" -> MomentumShouldBuy(st, stock_code, md)
      [] OTHER -> MeanReversionShouldBuy(st, stock_code, md)

ShouldSell(v, st, stock_code, md) ==
    CASE v = "moving_average_crossover" -> MovingAverageShouldSell(st, stock_code, md)
      [] v = "rsi" -> RsiShouldSell(st, stock_code, md)
      [] v = "bollinger_bands" -> BollingerShouldSell(st, stock_code, md)
      [] v = "macd" -> MacdShouldSell(st, stock_code, md)
      [] v = "momentum" -> MomentumShouldSell(st, stock_code, md)
      [] OTHER -> MeanReversionShouldSell(st, stock_code, md)

\* int(x): truncation toward zero of the quotient n / d, d > 0
IntTrunc(n, d) == IF n >= 0 THEN n \div d ELSE -((-n) \div d)

\* faulty variant: the quantity without its minimum of one
CalculateBuyQuantityNoMinimum(allocation_ratio, available_balance, current_price) ==
    IntTrunc(available_balance * allocation_ratio, 100 * current_price)

\* calculate_buy_quantity, the same body in every variant; the ratio in percent,
\* the quotient taken exactly
CalculateBuyQuantity(allocation_ratio, available_balance, current_price) ==
    LET quantity == IntTrunc(available_balance * allocation_ratio, 100 * current_price)
    IN Max(1, quantity)

(* BaseStrategy.on_buy_signal / on_sell_signal and StrategyEngine.execute_strategy *)

\* the list the variant appends to and the length at which it pops the oldest entry
HistoryCap(v) ==
    CASE v = "moving_average_crossover" -> LongPeriod
      [] v = "rsi" -> RsiPeriod * 2
      [] v = "bollinger_bands" -> BandPeriod * 2
      [] v = "macd" -> SlowPeriod * 2
      [] v = "momentum" -> MomentumPeriod * 2
      [] OTHER -> MeanPeriod * 2

\* on_buy_signal: [signal, quantity, a] with a the answer of should_buy
OnBuySignal(v, cfg, st, stock_code, md) ==
    LET a == ShouldBuy(v, st, stock_code, md)
        quantity == CalculateBuyQuantity(cfg.allocation_ratio, cfg.available_balance,
                                         md.current_price)
    IN IF ~a.ret \/ md.current_price <= 0
       THEN [signal |-> "none", quantity |-> 0, a |-> a]
       ELSE IF quantity <= 0 THEN [signal |-> "none", quantity |-> 0, a |-> a]
       ELSE [signal |-> "BUY", quantity |-> quantity, a |-> a]

\* on_sell_signal: should_sell is called before the holding is looked at
OnSellSignal(v, cfg, st, stock_code, md, holding_quantity) ==
    LET a == ShouldSell(v, st, stock_code, md)
    IN IF ~a.ret \/ holding_quantity <= 0
       THEN [signal |-> "none", quantity |-> 0, a |-> a]
       ELSE [signal |-> "SELL", quantity |-> holding_quantity, a |-> a]

\* the holding execute_strategy passes to on_sell_signal, whatever the account holds
HoldingPassed(held) == 0

Snapshots == [current_price : 0..MaxPrice, volume : {0, 1, 2 * MaxPrice}]
NoSnapshot == [current_price |-> -1, volume |-> -1]

\* the closes of the daily chart: none, just enough for the RSI, a month of them
ChartCloses ==
    {<<>>} \cup {[i \in 1..n |-> 1] : n \in {RsiPeriod + 1, 2 * RsiPeriod + 1}}

\* faulty variant: on_sell_signal is called whatever on_buy_signal returned
ExecuteStrategyStepsSellToo(v, cfg, st0, stock_code, md, held) ==
    LET b == OnBuySignal(v, cfg, st0, stock_code, md)
    IN [b |-> b, called |-> TRUE,
        s |-> OnSellSignal(v, cfg, b.a.st, stock_code, md, HoldingPassed(held))]

\* execute_strategy from the snapshot on: on_buy_signal first, and on_sell_signal
\* only when on_buy_signal returned no signal
ExecuteStrategySteps(v, cfg, st0, stock_code, md, held) ==
    LET b == OnBuySignal(v, cfg, st0, stock_code, md)
    IN IF b.signal = "BUY"
       THEN [b |-> b, called |-> FALSE,
             s |-> [signal |-> "none", quantity |-> 0,
                    a |-> Answer(FALSE, b.a.st, b.a.hist, NoInd, NoInd)]]
       ELSE [b |-> b, called |-> TRUE,
             s |-> OnSellSignal(v, cfg, b.a.st, stock_code, md, HoldingPassed(held))]

\* _initialize_price_history exists on the RSI variant only, and returns at once
\* for a symbol in _initialized_stocks; otherwise it requests the daily chart
ChartRequested(stock_code) ==
    variant = "rsi" /\ stock_code \notin initialized_stocks

\* the observation of one call that got its snapshot
Evaluated(stock_code, md, held, e) ==
    LET bought == e.b.signal = "BUY"
    IN [stock_code |-> stock_code,
        current_price |-> md.current_price,
        volume |-> md.volume, held |-> held,
        buy |-> e.b.a.ret,
        sell |-> e.s.a.ret,
        sell_called |-> e.called,
        signal |-> IF bought THEN "BUY" ELSE e.s.signal,
        quantity |-> IF bought THEN e.b.quantity ELSE e.s.quantity,
        hist |-> e.b.a.hist,
        prev |-> prev_ind[stock_code],
        ind |-> e.b.a.ind,
        sell_ind |-> e.s.a.ind,
        sell_prev |-> e.s.a.prev,
        requested |-> ChartRequested(stock_code),
        loaded |-> ChartRequested(stock_code) /\ stock_code \in e.b.a.st.init,
        before |-> price_history_by_stock[stock_code]]

\* execute_strategy(strategy_name, stock_code) on the registered, active instance;
\* md = NoSnapshot stands for a failed price query; the instance's own fields
ExecuteStrategyEffect(stock_code, md, held, closes) ==
    /\ variant \in Variants
    /\ nevals < MaxEvals
    /\ nevals' = nevals + 1
    /\ \E st0 \in {IF variant = "rsi"
                   THEN InitializePriceHistory(StratState, stock_code, closes)
                   ELSE StratState} :
       \E own0 \in {IF st0.init # initialized_stocks
                    THEN [own EXCEPT ![stock_code] = closes] ELSE own} :
          IF md = NoSnapshot
          THEN /\ price_history' = st0.ph
               /\ price_history_by_stock' = st0.by
               /\ initialized_stocks' = st0.init
               /\ macd_history' = st0.mh
               /\ signal_history' = st0.sh
               /\ own' = own0
               /\ prev_ind' = prev_ind
               /\ seen_volume' = seen_volume
               /\ sev' = [NoSev EXCEPT !.stock_code = stock_code, !.held = held,
                                       !.current_price = md.current_price,
                                       !.requested = ChartRequested(stock_code),
                                       !.loaded = ChartRequested(stock_code)
                                                  /\ stock_code \in st0.init,
                                       !.before = price_history_by_stock[stock_code]]
          ELSE \E e \in {ExecuteStrategySteps(variant, config, st0, stock_code, md, held)} :
                  /\ price_history' = e.s.a.st.ph
                  /\ price_history_by_stock' = e.s.a.st.by
                  /\ initialized_stocks' = e.s.a.st.init
                  /\ macd_history' = e.s.a.st.mh
                  /\ signal_history' = e.s.a.st.sh
                  /\ own' = IF md.current_price <= 0 THEN own0
                            ELSE [own0 EXCEPT ![stock_code] =
                                     AppendCap(@, md.current_price, HistoryCap(variant))]
                  /\ seen_volume' = IF md.current_price <= 0 THEN seen_volume
                                    ELSE [seen_volume EXCEPT ![stock_code] =
                                             @ \cup {md.volume}]
                  /\ prev_ind' = [prev_ind EXCEPT ![stock_code] = e.b.a.ind]
                  /\ sev' = Evaluated(stock_code, md, held, e)
    /\ UNCHANGED <<variant, config>>

ExecuteStrategyCall(stock_code, md, held, closes) ==
    /\ ExecuteStrategyEffect(stock_code, md, held, closes)
    /\ UNCHANGED <<tokVars, cycVars, schVars, selVars, regVars, logVars, mktVars, provVars>>

\* a process with no token and no cycle running, USE_MOCK_DATA among flags
TokQuietWith(flags) ==
    /\ now = 0 /\ mock \in flags /\ midnight = 1
    /\ file = [d \in Dates |-> NoFile]
    /\ access_token = [c \in Clients |-> NoToken]
    /\ token_expires_at = [c \in Clients |-> NoExpiry]
    /\ token_file = [c \in Clients |-> IF c = "a" THEN 0 ELSE NoDate]
    /\ lock = NoProc /\ waiters = <<>>
    /\ pc = [p \in Procs |-> "idle"]
    /\ op = [p \in Procs |-> "none"]
    /\ cl = [p \in Procs |-> "none"]
    /\ stage = [p \in Procs |-> "none"]
    /\ hdr = [p \in Procs |-> NoToken]
    /\ attempts = [p \in Procs |-> 0]
    /\ refreshes = [p \in Procs |-> 0]
    /\ calls = 0
    /\ issued = <<>>
    /\ sawIssue = [p \in Procs |-> NoToken]
    /\ tev = NoTev /\ ev = NoEv

\* the same with USE_MOCK_DATA at its default (config.py: True)
TokQuiet == TokQuietWith({TRUE})

\* allocation_ratio in percent
AllocationRatios == {10, 50, 100}
\* available_balance as the config gives it
Balances == -1..MaxBalance

\* create_strategy(strategy_type, config): a fresh instance of one variant
InitStrategy ==
    /\ TokQuiet
    /\ CycIdle
    /\ SchIdle
    /\ ProvIdle
    /\ MktIdle
    /\ LogIdle
    /\ RegIdle
    /\ SelIdle
    /\ variant \in Variants
    /\ config = [available_balance |-> MaxBalance, allocation_ratio |-> 100]
    /\ price_history = <<>>
    /\ price_history_by_stock = [c \in StockCodes |-> <<>>]
    /\ initialized_stocks = {}
    /\ macd_history = <<>> /\ signal_history = <<>>
    /\ own = [c \in StockCodes |-> <<>>]
    /\ seen_volume = [c \in StockCodes |-> {}]
    /\ prev_ind = [c \in StockCodes |-> NoInd]
    /\ sev = NoSev /\ nevals = 0

\* the inputs the variant reads: volume is read by the momentum variant only
\* (a traded volume, low or high),
\* the daily chart by the RSI variant only
SnapshotsOf(v) ==
    {md \in Snapshots : md.volume = 0 <=> v # "momentum"} \cup {NoSnapshot}
ChartClosesOf(v) == IF v = "rsi" THEN ChartCloses ELSE {<<>>}

StratNext ==
    \E stock_code \in EvalCodes, md \in SnapshotsOf(variant),
       held \in {0, 1}, closes \in ChartClosesOf(variant) :
        ExecuteStrategyCall(stock_code, md, held, closes)

SpecStrategy == InitStrategy /\ [][StratNext]_vars

(* an instance that is evaluated on one symbol only *)
InitEngine == InitStrategy

EngineNext ==
    \E stock_code \in OneCode,
       md \in SnapshotsOf(variant), held \in {0, 1},
       closes \in ChartClosesOf(variant) :
        ExecuteStrategyCall(stock_code, md, held, closes)

SpecEngine == InitEngine /\ [][EngineNext]_vars

-----------------------------------------------------------------------------
(* calculate_buy_quantity applied to bounded inputs *)
InitSizing ==
    /\ TokQuiet
    /\ CycIdle
    /\ SchIdle
    /\ ProvIdle
    /\ MktIdle
    /\ LogIdle
    /\ RegIdle
    /\ SelIdle
    /\ variant \in Variants
    /\ config \in [available_balance : Balances, allocation_ratio : AllocationRatios]
    /\ price_history = <<>>
    /\ price_history_by_stock = [c \in StockCodes |-> <<>>]
    /\ initialized_stocks = {}
    /\ macd_history = <<>> /\ signal_history = <<>>
    /\ own = [c \in StockCodes |-> <<>>]
    /\ seen_volume = [c \in StockCodes |-> {}]
    /\ prev_ind = [c \in StockCodes |-> NoInd]
    /\ sev = NoSev /\ nevals = 0

\* strategy.calculate_buy_quantity(stock_code, current_price, available_balance)
CalculateBuyQuantityCall(current_price) ==
    /\ variant \in Variants
    /\ nevals < MaxEvals
    /\ nevals' = nevals + 1
    /\ sev' = [NoSev EXCEPT !.current_price = current_price,
                            !.signal = "sized",
                            !.quantity = CalculateBuyQuantity(config.allocation_ratio,
                                                              config.available_balance,
                                                              current_price)]
    /\ UNCHANGED <<variant, config, price_history, price_history_by_stock,
                   initialized_stocks, macd_history, signal_history, own, seen_volume,
                   prev_ind>>
    /\ UNCHANGED <<tokVars, cycVars, schVars, selVars, regVars, logVars, mktVars, provVars>>

SizingNext == \E current_price \in 1..MaxPrice : CalculateBuyQuantityCall(current_price)

SpecSizing == InitSizing /\ [][SizingNext]_vars

-----------------------------------------------------------------------------
(* AutoTradingScheduler (services/scheduler.py) and its routes                *)
(* (api/auto_trading.py): start, stop, update_schedule, the fires of the job  *)
(* "auto_trading_job" and the executions of POST /execute.                     *)

Intervals == {MinInterval - 5, MinInterval, DefaultInterval}
ScheduleTypes == {"interval", "daily", "weekly"}
RunOutcomes == {"returned", "raised"}

SchState ==
    [is_running |-> is_running, scheduler |-> scheduler, jobs |-> jobs,
     interval_seconds |-> interval_seconds, schedule_type |-> schedule_type,
     instances |-> instances]

\* add_job(..., id="auto_trading_job", replace_existing=True) on a job store
AddJob(n) == IF n = 0 THEN 1 ELSE n

\* faulty variant: start on a running scheduler registers the job once more
StartAgain(s, interval, type) ==
    IF s.is_running
    THEN [s |-> [s EXCEPT !.jobs = @ + 1], result |-> "warning"]
    ELSE [s |-> [is_running |-> TRUE, scheduler |-> "active", jobs |-> AddJob(0),
                 interval_seconds |-> interval, schedule_type |-> type,
                 instances |-> 0],
          result |-> "ok"]

\* start: a warning and nothing else when running; otherwise a fresh
\* AsyncIOScheduler with the one job, started
Start(s, interval, type) ==
    IF s.is_running
    THEN [s |-> s, result |-> "warning"]
    ELSE [s |-> [is_running |-> TRUE, scheduler |-> "active", jobs |-> AddJob(0),
                 interval_seconds |-> interval, schedule_type |-> type,
                 instances |-> 0],
          result |-> "ok"]

\* stop: shutdown(wait=True) ends the scheduler, empties its job store and
\* cancels the executions of the job still pending on the event loop
Stop(s) ==
    IF ~s.is_running \/ s.scheduler = "none"
    THEN [s |-> s, result |-> "warning"]
    ELSE [s |-> [s EXCEPT !.scheduler = "shutdown", !.jobs = 0, !.instances = 0,
                          !.is_running = FALSE],
          result |-> "ok"]

\* faulty variant: update_schedule on a stopped scheduler takes the arguments
UpdateScheduleAlways(s, interval, type) ==
    [s |-> [s EXCEPT !.interval_seconds = interval, !.schedule_type = type],
     result |-> "ok"]

\* update_schedule: reschedule_job keeps the job and replaces its trigger
UpdateSchedule(s, interval, type) ==
    IF ~s.is_running \/ s.scheduler = "none"
    THEN [s |-> s, result |-> "warning"]
    ELSE [s |-> [s EXCEPT !.interval_seconds = interval, !.schedule_type = type],
          result |-> "ok"]

\* faulty variant: the route accepts every interval
StartSchedulerNoMinimum(s, interval, type) ==
    IF type \notin {"interval", "daily"} THEN [s |-> s, result |-> "400"]
    ELSE IF s.is_running
         THEN [s |-> UpdateSchedule(s, interval, type).s, result |-> "200"]
         ELSE [s |-> Start(s, interval, type).s, result |-> "200"]

\* POST /scheduler/start
StartScheduler(s, interval, type) ==
    IF type \notin {"interval", "daily"} THEN [s |-> s, result |-> "400"]
    ELSE IF type = "interval" /\ interval < MinInterval THEN [s |-> s, result |-> "400"]
    ELSE IF s.is_running
         THEN [s |-> UpdateSchedule(s, interval, type).s, result |-> "200"]
         ELSE [s |-> Start(s, interval, type).s, result |-> "200"]

\* POST /scheduler/stop
StopScheduler(s) ==
    IF ~s.is_running THEN [s |-> s, result |-> "200"]
    ELSE [s |-> Stop(s).s, result |-> "200"]

Schev(o, r) ==
    [op |-> o, result |-> r, was_running |-> is_running,
     interval_before |-> interval_seconds, type_before |-> schedule_type,
     jobs_before |-> jobs, scheduler_before |-> scheduler,
     interval_arg |-> 0, type_arg |-> "none"]

SchApply(o, a, interval, type) ==
    /\ is_running' = a.s.is_running /\ scheduler' = a.s.scheduler /\ jobs' = a.s.jobs
    /\ interval_seconds' = a.s.interval_seconds /\ schedule_type' = a.s.schedule_type
    /\ instances' = a.s.instances
    /\ schev' = [Schev(o, a.result) EXCEPT !.interval_arg = interval, !.type_arg = type]
    /\ UNCHANGED manual
    /\ UNCHANGED <<tokVars, cycVars, stratVars, selVars, regVars, logVars, mktVars, provVars>>

StartCall(interval, type) == SchApply("start", Start(SchState, interval, type), interval, type)
StopCall == SchApply("stop", Stop(SchState), 0, "none")
UpdateScheduleCall(interval, type) ==
    SchApply("update_schedule", UpdateSchedule(SchState, interval, type), interval, type)
StartSchedulerCall(interval, type) ==
    SchApply("start_scheduler", StartScheduler(SchState, interval, type), interval, type)
StopSchedulerCall == SchApply("stop_scheduler", StopScheduler(SchState), 0, "none")

\* the trigger of the job fires: the market gate of _execute_auto_trading
\* returns before the first await; otherwise the execution is in flight,
\* unless max_instances executions already are, and then the fire is skipped
Fire(market_status) ==
    /\ scheduler = "active" /\ jobs > 0
    /\ IF instances >= MaxInstances
       THEN schev' = Schev("fire", "skipped") /\ UNCHANGED instances
       ELSE IF ~market_status
            THEN schev' = Schev("fire", "market_closed") /\ UNCHANGED instances
            ELSE schev' = Schev("fire", "executing") /\ instances' = instances + 1
    /\ UNCHANGED <<is_running, scheduler, jobs, interval_seconds, schedule_type, manual>>
    /\ UNCHANGED <<tokVars, cycVars, stratVars, selVars, regVars, logVars, mktVars, provVars>>

\* faulty variant: an exception in an execution stops the scheduler
RunEndsStops(outcome) ==
    /\ instances > 0
    /\ instances' = instances - 1
    /\ schev' = Schev("run_end", outcome)
    /\ IF outcome = "raised"
       THEN is_running' = FALSE /\ scheduler' = "shutdown" /\ jobs' = 0
       ELSE UNCHANGED <<is_running, scheduler, jobs>>
    /\ UNCHANGED <<interval_seconds, schedule_type, manual>>
    /\ UNCHANGED <<tokVars, cycVars, stratVars, selVars, regVars, logVars, mktVars, provVars>>

\* an execution of the job ends: it returned, or an exception reached the
\* handler of the whole cycle, which logs it
RunEnds(outcome) ==
    /\ instances > 0
    /\ instances' = instances - 1
    /\ schev' = Schev("run_end", outcome)
    /\ UNCHANGED <<is_running, scheduler, jobs, interval_seconds, schedule_type, manual>>
    /\ UNCHANGED <<tokVars, cycVars, stratVars, selVars, regVars, logVars, mktVars, provVars>>

\* POST /execute: a cycle of its own, neither behind the market gate nor
\* counted by the scheduler
ExecuteAutoTradingRoute ==
    /\ manual < MaxManual
    /\ manual' = manual + 1
    /\ schev' = Schev("execute", "executing")
    /\ UNCHANGED <<is_running, scheduler, jobs, interval_seconds, schedule_type, instances>>
    /\ UNCHANGED <<tokVars, cycVars, stratVars, selVars, regVars, logVars, mktVars, provVars>>

ExecuteAutoTradingRouteEnds(outcome) ==
    /\ manual > 0
    /\ manual' = manual - 1
    /\ schev' = Schev("execute_end", outcome)
    /\ UNCHANGED <<is_running, scheduler, jobs, interval_seconds, schedule_type, instances>>
    /\ UNCHANGED <<tokVars, cycVars, stratVars, selVars, regVars, logVars, mktVars, provVars>>

InitScheduler ==
    /\ TokQuiet
    /\ CycIdle
    /\ StratIdle
    /\ SchIdle
    /\ ProvIdle
    /\ MktIdle
    /\ LogIdle
    /\ RegIdle
    /\ SelIdle

SchNext ==
    \/ \E i \in Intervals, t \in ScheduleTypes : StartCall(i, t)
    \/ StopCall
    \/ \E i \in Intervals, t \in ScheduleTypes : UpdateScheduleCall(i, t)
    \/ \E i \in Intervals, t \in ScheduleTypes : StartSchedulerCall(i, t)
    \/ StopSchedulerCall
    \/ \E m \in BOOLEAN : Fire(m)
    \/ \E o \in RunOutcomes : RunEnds(o)
    \/ ExecuteAutoTradingRoute
    \/ \E o \in RunOutcomes : ExecuteAutoTradingRouteEnds(o)

SpecScheduler == InitScheduler /\ [][SchNext]_vars

-----------------------------------------------------------------------------
(* StrategyEngine.get_auto_selected_stocks applied to bounded inputs *)

AutoSelectionModes == {"ranking", "volume", "trend"}

\* an entry of the brokerage's ranking: mksc_shrn_iscd (0: the empty string),
\* prdy_ctrt, acml_vol (in units of min_volume's default), and whether its
\* numbers parse (float() and int() raise ValueError when they do not)
RankEntries ==
    [stock_code : {0} \cup EvalCodes, prdy_ctrt : {-MinChangeRate, 0, MinChangeRate},
     acml_vol : {0, MinVolume}, parses : BOOLEAN]

SelectorInputs ==
    [selection_mode : AutoSelectionModes, max_stocks : 1..MaxEntries,
     min_change_rate : {MinChangeRate}, min_volume : {MinVolume},
     failed : BOOLEAN, output : SeqsUpTo(RankEntries, MaxEntries)]

\* the condition under which the loop appends the entry's stock code
EntrySelected(item, selection_mode, criteria) ==
    /\ item.stock_code # 0
    /\ selection_mode = "ranking" => Abs(item.prdy_ctrt) >= criteria.min_change_rate
    /\ item.acml_vol >= criteria.min_volume

\* `for item in output[:max_stocks]`, left by the exception of an entry that
\* does not parse; acc: selected_stocks so far and the entries they came from
RECURSIVE SelectLoop(_, _, _, _)
SelectLoop(items, selection_mode, criteria, acc) ==
    IF items = <<>> THEN acc
    ELSE IF ~Head(items).parses THEN [acc EXCEPT !.error = TRUE]
    ELSE IF EntrySelected(Head(items), selection_mode, criteria)
    THEN SelectLoop(Tail(items), selection_mode, criteria,
                    [acc EXCEPT !.stocks = Append(@, Head(items).stock_code),
                                !.picked = Append(@, Head(items))])
    ELSE SelectLoop(Tail(items), selection_mode, criteria, acc)

\* get_auto_selected_stocks: selected_stocks is returned on every path; the
\* handler of the try logs the exception
GetAutoSelectedStocks(selection_mode, criteria, failed, output) ==
    LET empty == [done |-> TRUE, raised |-> FALSE, error |-> FALSE, stocks |-> <<>>,
                  picked |-> <<>>]
    IN IF selection_mode \notin {"ranking", "volume"} THEN empty
       ELSE IF failed THEN [empty EXCEPT !.error = TRUE]
       ELSE SelectLoop(SubSeq(output, 1, Min(criteria.max_stocks, Len(output))),
                       selection_mode, criteria, empty)

GetAutoSelectedStocksCall ==
    /\ ~sel_out.done
    /\ sel_out' = GetAutoSelectedStocks(sel_in.selection_mode, sel_in, sel_in.failed,
                                        sel_in.output)
    /\ UNCHANGED sel_in
    /\ UNCHANGED <<tokVars, cycVars, stratVars, schVars, regVars, logVars, mktVars, provVars>>

InitSelector ==
    /\ TokQuiet
    /\ CycIdle
    /\ StratIdle
    /\ SchIdle
    /\ ProvIdle
    /\ MktIdle
    /\ LogIdle
    /\ RegIdle
    /\ sel_in \in SelectorInputs
    /\ sel_out = NoSelOut

SelNext == GetAutoSelectedStocksCall

SpecSelector == InitSelector /\ [][SelNext]_vars

-----------------------------------------------------------------------------
(* StrategyEngine.register_strategy / unregister_strategy *)

\* the instances create_strategy builds: a variant and the period of its config
StrategyInstances == [strategy_type : Variants, period : 0..Lookback]

\* BaseStrategy.validate_config, which no variant overrides
ValidateConfig(strategy) == TRUE

\* register_strategy: [strategies, raised]
RegisterStrategy(registry, name, strategy) ==
    IF ~ValidateConfig(strategy)
    THEN [strategies |-> registry, raised |-> TRUE]
    ELSE [strategies |-> [registry EXCEPT ![name] = strategy], raised |-> FALSE]

UnregisterStrategy(registry, name) ==
    IF registry[name] # NoStrategy THEN [registry EXCEPT ![name] = NoStrategy]
    ELSE registry

RegisterStrategyCall(name, strategy) ==
    /\ \E r \in {RegisterStrategy(strategies, name, strategy)} :
           /\ strategies' = r.strategies
           /\ regev' = [op |-> "register_strategy", name |-> name,
                        strategy |-> strategy, raised |-> r.raised,
                        before |-> strategies]
    /\ UNCHANGED <<tokVars, cycVars, stratVars, schVars, selVars, logVars, mktVars, provVars>>

UnregisterStrategyCall(name) ==
    /\ strategies' = UnregisterStrategy(strategies, name)
    /\ regev' = [op |-> "unregister_strategy", name |-> name, strategy |-> NoStrategy,
                 raised |-> FALSE, before |-> strategies]
    /\ UNCHANGED <<tokVars, cycVars, stratVars, schVars, selVars, logVars, mktVars, provVars>>

InitRegistry ==
    /\ TokQuiet
    /\ CycIdle
    /\ StratIdle
    /\ SchIdle
    /\ ProvIdle
    /\ MktIdle
    /\ LogIdle
    /\ SelIdle
    /\ RegIdle

RegNext ==
    \/ \E name \in StrategyNames, strategy \in StrategyInstances :
           RegisterStrategyCall(name, strategy)
    \/ \E name \in StrategyNames : UnregisterStrategyCall(name)

SpecRegistry == InitRegistry /\ [][RegNext]_vars

-----------------------------------------------------------------------------
(* What the failure paths of KISClient write to the log.  A record is the      *)
(* place that writes it, its level, and the fragments of its text that carry  *)
(* a secret: the label in front of the value, the secret, and the part of it  *)
(* that is printed.                                                            *)

LogOperations == {"get_current_price", "get_account_balance", "place_order",
                  "get_access_token"}
LogFailures == {"rt_cd", "connect", "timeout", "http_403", "http_500", "other"}
AccountLengths == {"short", "ten", "long"}
FailureInputs ==
    [operation : LogOperations, failure : LogFailures, mock : BOOLEAN,
     account : AccountLengths]

Fragment(l, s, p) == [label |-> l, secret |-> s, part |-> p]

\* sanitize_error_message: the value behind app_key, app_secret or account_no
\* is replaced by ***
SanitizeErrorMessage(fragments) ==
    {IF f.label \in {"app_key", "app_secret", "account_no"}
     THEN [f EXCEPT !.part = "redacted"] ELSE f : f \in fragments}

\* _parse_account_no: CANO and ACNT_PRDT_CD of the params or the data
ParseAccountNo(account) ==
    {Fragment("CANO", "account_no", "first8")} \cup
    (IF account = "short" THEN {} ELSE {Fragment("ACNT_PRDT_CD", "account_no", "last2")})

\* what _parse_account_no logs itself
ParseAccountNoLog(account) ==
    CASE account = "short" ->
           {[at |-> "_parse_account_no", level |-> "info",
             fragments |-> {Fragment("account number parsed", "account_no", "whole")}]}
      [] account = "long" ->
           {[at |-> "_parse_account_no", level |-> "warning",
             fragments |-> {Fragment("only the first ten digits are used", "account_no", "whole")}]}
      [] OTHER -> {}

\* `params if params else data` of the operation
RequestArguments(operation, account) ==
    IF operation \in {"get_account_balance", "place_order"}
    THEN ParseAccountNo(account)
    ELSE {}

\* str(e) of the exception: httpx names the URL of a GET with its query
ErrorText(operation, failure, account) ==
    IF failure \in {"http_403", "http_500"} /\ operation = "get_account_balance"
    THEN ParseAccountNo(account)
    ELSE {}

\* _request: every handler logs the arguments as they are; the handlers of
\* ConnectError, TimeoutException and Exception log the sanitized message,
\* and the exception raised for rt_cd # "0" passes through the last handler
RequestLog(operation, failure, account) ==
    {[at |-> "_request", level |-> "error",
      fragments |-> RequestArguments(operation, account)]} \cup
    (IF failure \in {"connect", "timeout", "other", "rt_cd"}
     THEN {[at |-> "_request", level |-> "error",
            fragments |-> SanitizeErrorMessage(ErrorText(operation, failure, account))]}
     ELSE {})

\* get_account_balance: its handler of HTTP 500, and the fallback warning
AccountBalanceLog(failure, use_mock_data, account) ==
    CASE failure = "http_500" ->
           {[at |-> "get_account_balance", level |-> "error",
             fragments |-> {Fragment("current account number", "account_no", "whole")}],
            [at |-> "get_account_balance", level |-> "error",
             fragments |-> ParseAccountNo(account)]}
           \cup ParseAccountNoLog(account)
      [] failure \in {"connect", "timeout"} /\ use_mock_data ->
           {[at |-> "get_account_balance", level |-> "warning", fragments |-> {}]}
      [] OTHER -> {}

\* get_access_token: 403 logs the response; another HTTP status is raised as
\* it is; every other exception, httpx's transport errors included, reaches
\* the last handler, which logs the first ten characters of the app key
GetAccessTokenLog(failure) ==
    CASE failure = "http_403" ->
           {[at |-> "get_access_token", level |-> "error", fragments |-> {}]}
      [] failure = "http_500" -> {}
      [] OTHER ->
           {[at |-> "get_access_token", level |-> "error", fragments |-> {}],
            [at |-> "get_access_token", level |-> "error",
             fragments |-> {Fragment("app_key", "app_key", "first10")}]}

FailureLog(operation, failure, use_mock_data, account) ==
    IF operation = "get_access_token" THEN GetAccessTokenLog(failure)
    ELSE RequestLog(operation, failure, account) \cup
         (IF operation = "get_account_balance"
          THEN AccountBalanceLog(failure, use_mock_data, account) ELSE {})

FailedCall ==
    /\ ~fail_out.done
    /\ fail_out' = [done |-> TRUE,
                    records |-> FailureLog(fail_in.operation, fail_in.failure,
                                           fail_in.mock, fail_in.account)]
    /\ UNCHANGED fail_in
    /\ UNCHANGED <<tokVars, cycVars, stratVars, schVars, selVars, regVars, mktVars, provVars>>

InitLog ==
    /\ TokQuiet
    /\ CycIdle
    /\ StratIdle
    /\ SchIdle
    /\ ProvIdle
    /\ MktIdle
    /\ SelIdle
    /\ RegIdle
    /\ fail_in \in FailureInputs
    /\ fail_out = NoFailOut

LogNext == FailedCall

SpecLog == InitLog /\ [][LogNext]_vars

-----------------------------------------------------------------------------
(* utils/market_time.py: is_market_open *)

DayMinutes == 24 * 60
\* a datetime: weekday() and time() as its own fields give them, and its tzinfo
\* ("none" for a naive datetime); the times of day around the session's ends
TimeZones == {"none", "Asia/Seoul", "UTC"}
TimesOfDay == {0, 30, 539, 540, 570, 720, 930, 931, 1080, 1439}
\* passed = FALSE: the argument is None and the record is datetime.now(KOREA_TZ)
MarketInputs ==
    {i \in [passed : BOOLEAN, tzinfo : TimeZones, weekday : 0..6, minute : TimesOfDay] :
        ~i.passed => i.tzinfo = "Asia/Seoul"}

\* KOREA_TZ.localize(t): the fields are kept and the zone is attached
Localize(t) == [t EXCEPT !.tzinfo = "Asia/Seoul"]

\* is_market_open(current_time)
IsMarketOpen(current_time) ==
    LET t == IF current_time.passed /\ current_time.tzinfo = "none"
             THEN Localize(current_time) ELSE current_time
    IN IF t.weekday >= FirstWeekendDay THEN FALSE
       ELSE MarketOpenMinute <= t.minute /\ t.minute <= MarketCloseMinute

IsMarketOpenCall ==
    /\ ~mkt_out.called
    /\ mkt_out' = [called |-> TRUE, ret |-> IsMarketOpen(mkt_in)]
    /\ UNCHANGED mkt_in
    /\ UNCHANGED <<tokVars, cycVars, stratVars, schVars, selVars, regVars, logVars, provVars>>

InitMarket ==
    /\ TokQuiet
    /\ CycIdle
    /\ StratIdle
    /\ SchIdle
    /\ ProvIdle
    /\ SelIdle
    /\ RegIdle
    /\ LogIdle
    /\ mkt_in \in MarketInputs
    /\ mkt_out = NoMktOut

MarketNext == IsMarketOpenCall

SpecMarket == InitMarket /\ [][MarketNext]_vars

-----------------------------------------------------------------------------
(* One scheduled evaluation of a symbol with its order: the daily chart     *)
(* request of the RSI variant, execute_strategy, and place_order on the     *)
(* signal                                                                    *)

ChartResponses == {"ok", "rejected", "http_500_text", "connect", "timeout"}

\* generate_mock_chart_data: a random walk of closes, one bar a day; the walks
\* that fall, rise and stay level over the month
MockBars == 2 * RsiPeriod + 1
MockChartCloses ==
    {[i \in 1..MockBars |-> MaxPrice - (i * (MaxPrice - 1)) \div MockBars],
     [i \in 1..MockBars |-> 1 + (i * (MaxPrice - 1)) \div MockBars],
     [i \in 1..MockBars |-> 1]}

\* KISClient.get_daily_chart on the final answer r of its request: the closes
\* handed to _initialize_price_history (none when it raises), and whether they
\* are synthetic
GetDailyChart(r, closes, mock_closes, use_mock_data) ==
    LET rc == RequestClassify(r, FALSE)
    IN IF rc.kind = "return" THEN [closes |-> closes, synthetic |-> FALSE]
       ELSE IF Fallback("get_daily_chart", rc.err, use_mock_data)
       THEN [closes |-> mock_closes, synthetic |-> TRUE]
       ELSE [closes |-> <<>>, synthetic |-> FALSE]

\* the provenance of the symbol's price list after the evaluation: a loaded
\* chart replaces it, the price of get_current_price (never synthetic) is appended
BarsAfter(stock_code, md, chart) ==
    LET loaded == IF ChartRequested(stock_code) /\ Len(chart.closes) >= RsiPeriod + 1
                  THEN [i \in 1..Len(chart.closes) |-> chart.synthetic]
                  ELSE bar_synthetic[stock_code]
    IN IF md.current_price <= 0 THEN loaded
       ELSE AppendCap(loaded, FALSE, RsiPeriod * 2)

\* the loop of _execute_auto_trading over one symbol: execute_strategy, and
\* place_order on the signal it returned
EvaluateAndOrder(stock_code, md, held, r, closes, mock_closes) ==
    \E chart \in {GetDailyChart(r, closes, mock_closes, mock)} :
        /\ ExecuteStrategyEffect(stock_code, md, held, chart.closes)
        /\ bar_synthetic' = IF variant = "rsi"
                            THEN [bar_synthetic EXCEPT
                                     ![stock_code] = BarsAfter(stock_code, md, chart)]
                            ELSE bar_synthetic
        /\ submitted' =
               IF sev'.signal \in {"BUY", "SELL"}
               THEN submitted \cup
                        {[stock_code |-> stock_code, action |-> sev'.signal,
                          price |-> md.current_price,
                          synthetic |->
                              \E i \in 1..Len(bar_synthetic'[stock_code]) :
                                  /\ i >= Len(bar_synthetic'[stock_code]) - RsiPeriod
                                  /\ bar_synthetic'[stock_code][i]]}
               ELSE submitted
        /\ UNCHANGED <<tokVars, cycVars, schVars, selVars, regVars, logVars, mktVars>>

InitProvenance ==
    /\ TokQuietWith(BOOLEAN)
    /\ CycIdle
    /\ SchIdle
    /\ LogIdle
    /\ RegIdle
    /\ SelIdle
    /\ MktIdle
    /\ ProvIdle
    /\ variant \in Variants
    /\ config = [available_balance |-> MaxBalance, allocation_ratio |-> 100]
    /\ price_history = <<>>
    /\ price_history_by_stock = [c \in StockCodes |-> <<>>]
    /\ initialized_stocks = {}
    /\ macd_history = <<>> /\ signal_history = <<>>
    /\ own = [c \in StockCodes |-> <<>>]
    /\ seen_volume = [c \in StockCodes |-> {}]
    /\ prev_ind = [c \in StockCodes |-> NoInd]
    /\ sev = NoSev /\ nevals = 0

ChartResponsesOf(v) == IF v = "rsi" THEN ChartResponses ELSE {"ok"}
MockChartClosesOf(v, r) ==
    IF v = "rsi" /\ r \in {"connect", "timeout"} THEN MockChartCloses ELSE {<<>>}
RealChartClosesOf(v, r) == IF r = "ok" THEN ChartClosesOf(v) ELSE {<<>>}

ProvenanceNext ==
    \E stock_code \in OneCode, md \in SnapshotsOf(variant), held \in {0, 1},
       r \in ChartResponsesOf(variant) :
        \E closes \in RealChartClosesOf(variant, r),
           mock_closes \in MockChartClosesOf(variant, r) :
            EvaluateAndOrder(stock_code, md, held, r, closes, mock_closes)

SpecProvenance == InitProvenance /\ [][ProvenanceNext]_vars

-----------------------------------------------------------------------------
(* Claims on the scheduled cycle *)

Submissions(i) == {j \in 1..Len(orders) : orders[j].signal.id = i}

\* C1: in a scheduled cycle every signal a strategy evaluation produced is
\* submitted through place_order exactly once; no signal is submitted twice.
C1_EachSignalSubmittedOnce ==
    /\ \A i \in 1..Len(all_signals) : Cardinality(Submissions(i)) <= 1
    /\ cyc = "done" =>
           \A i \in 1..Len(all_signals) : Cardinality(Submissions(i)) = 1

\* C12: in a cycle with the market open, an active strategy in auto or ranking mode
\* is evaluated on the top entries of the brokerage's ranking list whenever that
\* list is not empty.
C12_RankingStrategyEvaluated ==
    cyc = "done" =>
        \A i \in 1..Len(selection) :
            ( /\ active_strategies[i] = "ranking"
              /\ ranking # <<>>
              /\ selection[i] # "not_registered" )
            => \A k \in 1..Min(RankLimit, Len(ranking)) :
                   <<i, ranking[k]>> \in evaluated

-----------------------------------------------------------------------------
(* Claims on the session manager and the request pipeline *)

Unexpired(f, t) == f.token # NoToken /\ f.valid # NoExpiry /\ f.valid > t
MemValid(m, t) == m.at # NoToken /\ m.ea # NoExpiry /\ t < m.ea
Issuing == {p \in Procs : pc[p] = "issuing"}

\* C2: at any time at most one token-issuance request is in flight in the
\* process, whatever the callers and the client instances they use.
C2_OneIssuanceInFlight == Cardinality(Issuing) <= 1

C2_Witness ==
    \E p, q \in Procs :
        /\ pc[p] = "issuing" /\ pc[q] = "wait_lock"
        /\ cl[p] # cl[q]

\* C3: a caller that waited on the guard while its holder obtained a token by a
\* successful issuance returns that token and sends no issuance request of its own.
C3_WaitersReuseIssuedToken ==
    /\ \A p \in Procs : pc[p] = "issuing" => sawIssue[p] = NoToken
    /\ tev.waitedFor # NoToken =>
           /\ tev.resp = "file"
           /\ tev.gat.kind = "return"
           /\ tev.gat.token = tev.waitedFor

\* C4: ensure_token never causes more than one new token to be issued within
\* one issuance window (60 seconds), for all token states and interleavings.
C4_OneIssuancePerWindow ==
    \A i, j \in 1..Len(issued) :
        (i < j /\ issued[i].via = "ens" /\ issued[j].via = "ens")
            => issued[j].at - issued[i].at >= IssueWindow

C6_RetryOnceAlwaysResubmits ==
    /\ \A p \in Procs : attempts[p] <= 2 /\ refreshes[p] <= 1
    /\ ev.att <= 2 /\ ev.ref <= 1
    /\ ev.ref = 1 => ev.att = 2
    /\ (ev.att = 2 /\ ev.resp = "http_401") => (ev.kind = "raise" /\ ev.err.status = 401)

\* C6 as amended: at most two attempts and one refresh; a 401 on the first attempt
\* triggers exactly one refresh, followed by one resubmission with retry disabled
\* when the refresh returns; when the refresh raises, its error leaves the pipeline
\* without a resubmission; a 401 on the resubmission is raised.
C6_RetryOnce ==
    /\ \A p \in Procs :
           /\ attempts[p] <= 2 /\ refreshes[p] <= 1
           /\ pc[p] = "req2" => (attempts[p] = 2 /\ refreshes[p] = 1)
           /\ pc[p] = "req1" => (attempts[p] = 1 /\ refreshes[p] = 0)
    /\ ev.att <= 2 /\ ev.ref <= 1
    /\ ev.att = 2 => ev.ref = 1
    /\ (ev.ref = 1 /\ ev.att = 1) =>
           /\ tev.gat.kind = "raise"
           /\ ev.kind # "return" /\ ev.err = tev.gat.err
    /\ (ev.att = 2 /\ ev.resp = "http_401") => (ev.kind = "raise" /\ ev.err.status = 401)

C6_Witness ==
    /\ ev.att = 2 /\ ev.ref = 1
    /\ ev.resp = "http_401" /\ ev.kind = "raise"

C8_SyntheticOnlyOnConnectivity ==
    ev.kind = "mock" => (mock /\ ev.err.type \in {"ConnectionError", "TimeoutError"})

\* C9: when issuance is answered with a rate-limit response, the caller gets a
\* token back whenever one exists in memory or (unexpired) on disk; an error is
\* raised only when none exists.
C9_RateLimitReusesToken ==
    LET exists == \/ tev.preMem.at # NoToken
                  \/ \E d \in Dates : Unexpired(file[d], now)
    IN tev.resp = "rate_limit" =>
           /\ exists => tev.gat.kind = "return" /\ tev.gat.token # NoToken
           /\ (exists /\ tev.via = "ens") => tev.ens.kind = "return"

\* C10: when issuance is answered with a 403 that is not a rate limit,
\* get_access_token and ensure_token raise and return no token, even if an older
\* token exists, and the error is not the rate-limit error.
C10_InvalidCredentialsFatal ==
    tev.resp = "forbidden" =>
        /\ tev.gat.kind = "raise" /\ tev.gat.token = NoToken
        /\ tev.gat.err.type = "ValueError" /\ tev.gat.err.msg = "auth_failed"
        /\ tev.gat.err # RateLimitError
        /\ tev.via = "ens" => (tev.ens.kind = "raise" /\ tev.ens.err = tev.gat.err)
        /\ tev.via = "tok" => (ev.kind = "raise" /\ ev.err = tev.gat.err)
        /\ tev.via = "req" => ev.kind # "return"

C10_Witness ==
    /\ tev.resp = "forbidden" /\ tev.gat.kind = "raise"
    /\ tev.preMem.at # NoToken /\ \E d \in Dates : file[d].token # NoToken

LastIssued == issued[Len(issued)]

\* C11: after a successful issuance the token and its expiry are on disk, and a
\* client constructed afterwards on the day of the issuance, before the expiry,
\* holds that token as valid and answers ensure_token without an issuance request.
C11_RestartReusesToken ==
    [][\A c \in Clients :
          ( /\ token_file[c] = NoDate /\ token_file'[c] # NoDate
            /\ issued # <<>>
            /\ Date(LastIssued.at) = Date(now)
            /\ now < LastIssued.at + TokenLife )
          => /\ access_token'[c] = LastIssued.tok
             /\ token_expires_at'[c] = LastIssued.at + TokenLife
             /\ EnsureToken(file'[token_file'[c]],
                            [at |-> access_token'[c], ea |-> token_expires_at'[c]],
                            now').kind = "return"]_vars

(* Claims on the strategies *)

\* the snapshot of the last evaluation
SevSnapshot == [current_price |-> sev.current_price, volume |-> sev.volume]

\* the last evaluation got a snapshot with a usable price
Priced == variant \in Variants /\ sev.current_price > 0 /\ sev.signal # "sized"

Front(q) == SubSeq(q, 1, Len(q) - 1)

\* the instance as it would be before the last evaluation had it seen the prices
\* of the evaluated symbol only
OwnState ==
    [StratState EXCEPT !.ph = Front(own[sev.stock_code]),
                       !.by[sev.stock_code] = Front(own[sev.stock_code])]

\* C13: an evaluation of a symbol works on the prices the instance has seen for
\* that symbol and on no others: the history it used is that symbol's own, and
\* (the variants whose result is a function of the history) should_buy answers
\* what it answers on that history, whatever evaluations of other symbols came
\* between
C13_HistoryPerSymbol ==
    Priced =>
        /\ sev.hist = own[sev.stock_code]
        /\ variant # "macd" =>
               sev.buy = ShouldBuy(variant, OwnState, sev.stock_code, SevSnapshot).ret

\* C14: over the evaluations of one symbol, MovingAverageCrossoverStrategy.should_buy
\* returns true only when the short average is above the long average and was at
\* or below it on the previous evaluation
C14_CrossoverFiresOnce ==
    (Priced /\ variant = "moving_average_crossover" /\ sev.buy /\ sev.prev.def) =>
        /\ RLt(sev.ind.slow, sev.ind.fast)
        /\ RLe(sev.prev.fast, sev.prev.slow)

\* C15: MACDStrategy, evaluated should_buy then should_sell on one snapshot,
\* compares the current (MACD, signal) pair with the pair of the preceding
\* evaluation: should_sell is true exactly when MACD is below signal now and was
\* at or above it then, should_buy exactly in the mirror case
C15_MacdComparesPrecedingPair ==
    (Priced /\ variant = "macd" /\ sev.prev.def /\ sev.ind.def) =>
        /\ sev.buy <=> (/\ RLt(sev.ind.slow, sev.ind.fast)
                        /\ RLe(sev.prev.fast, sev.prev.slow))
        /\ (sev.sell_called /\ sev.sell_ind.def) =>
               (sev.sell <=> (/\ RLt(sev.sell_ind.fast, sev.sell_ind.slow)
                              /\ RLe(sev.prev.slow, sev.prev.fast)))

\* C16: execute_strategy returns a SELL signal whenever the buy condition is not
\* satisfied, the sell condition is satisfied and the held quantity is positive
C16_SellWhenHeld ==
    (Priced /\ ~sev.buy /\ sev.sell /\ sev.held > 0) => sev.signal = "SELL"

\* C17: execute_strategy returns at most one signal: the buy condition comes
\* first, a satisfied buy condition returns the BUY signal, and then the sell
\* condition is not evaluated and no SELL signal is produced
C17_BuyBeforeSell ==
    Priced =>
        /\ sev.buy => sev.signal = "BUY"
        /\ sev.signal = "BUY" => ~sev.sell_called /\ ~sev.sell

\* a BUY was returned on a snapshot on which the sell condition holds as well
C17_Witness ==
    /\ Priced /\ sev.signal = "BUY"
    /\ ShouldSell(variant, StratState, sev.stock_code, SevSnapshot).ret

\* available_balance * allocation_ratio and the price, on the scale of the percent
Budget == config.available_balance * config.allocation_ratio
UnitCost == 100 * sev.current_price
Sized == variant \in Variants /\ sev.signal = "sized"

\* C18: calculate_buy_quantity returns floor(available_balance * allocation_ratio
\* / price), raised to 1 only when the budget supports one unit, so that the cost
\* quantity * price never exceeds available_balance * allocation_ratio
C18_CostWithinBudget ==
    Sized =>
        /\ Budget >= UnitCost => sev.quantity = Budget \div UnitCost
        /\ sev.quantity * UnitCost <= Budget

\* C19: for price > 0 calculate_buy_quantity is never negative, and is at least 1
\* whenever available_balance * allocation_ratio >= price
C19_QuantityAtLeastOne ==
    Sized =>
        /\ sev.quantity >= 0
        /\ Budget >= UnitCost => sev.quantity >= 1

\* a sizing whose budget supports more than one unit
C19_Witness == Sized /\ Budget >= 2 * UnitCost /\ sev.quantity >= 2

\* the lookback period of the variant
LookbackPeriod(v) ==
    CASE v = "moving_average_crossover" -> LongPeriod
      [] v = "rsi" -> RsiPeriod
      [] v = "bollinger_bands" -> BandPeriod
      [] v = "macd" -> SlowPeriod
      [] v = "momentum" -> MomentumPeriod
      [] OTHER -> MeanPeriod

\* C20: the stored price history of every variant and symbol is never longer than
\* twice the variant's lookback period
C20_HistoryBounded ==
    variant \in Variants =>
        /\ Len(price_history) <= 2 * LookbackPeriod(variant)
        /\ \A c \in StockCodes :
               Len(price_history_by_stock[c]) <= 2 * LookbackPeriod(variant)

\* C21: MomentumStrategy.should_buy is true exactly when the price change over
\* the lookback exceeds the threshold and the snapshot's volume is at least 80% of
\* the average of the past volumes (the case checked: every snapshot of the symbol
\* carried the same volume, which is then 100% of that average); should_sell
\* depends on negative momentum only
C21_MomentumVolumeGate ==
    (Priced /\ variant = "momentum" /\ Len(sev.hist) >= MomentumPeriod + 1
        /\ seen_volume[sev.stock_code] = {sev.volume}) =>
        /\ sev.buy <=> MomentumOver(sev.hist, MomentumThresholdPct)
        /\ sev.sell_called =>
               (sev.sell <=> MomentumUnder(sev.hist, -MomentumThresholdPct))

\* the last call of execute_strategy was made on an RSI instance
RsiCalled == variant = "rsi" /\ sev.stock_code \in StockCodes

\* C22: a call for an initialized symbol requests no daily chart, and a symbol's
\* history is never replaced by a backfill after live prices were appended to it
C22_BackfillOnce ==
    RsiCalled =>
        /\ ~sev.requested => sev.stock_code \in initialized_stocks /\ ~sev.loaded
        /\ sev.loaded => sev.before = <<>>

-----------------------------------------------------------------------------
(* Claims on the scheduler *)

\* C23: at most one scheduled execution of the job is in flight at any time,
\* and no two evaluate-and-submit cycles overlap.
C23_NoOverlappingCycles ==
    /\ instances <= MaxInstances
    /\ instances + manual <= 1

MarketClosed == <<"info", "market_closed">> \in log

\* C24: a fire that finds the market closed ends the cycle with no strategy
\* evaluated, no signal, no order and nothing left to do later, and what it
\* logs is the skip, at level info, and no error.
C24_ClosedMarketSkips ==
    MarketClosed =>
        /\ cyc = "done"
        /\ evaluated = {} /\ all_signals = <<>> /\ orders = <<>>
        /\ active_strategies = <<>> /\ codes = <<>> /\ selection = <<>>
        /\ log = {<<"info", "market_closed">>}

C24_Witness == MarketClosed /\ cyc = "done"

\* C27: when a cycle has ended, every active strategy had its turn, whatever
\* failed for the strategies before it, and every signal was submitted.
C27_FailuresIsolated ==
    cyc = "done" =>
        /\ \A i \in 1..Len(active_strategies) : i <= Len(selection)
        /\ \A k \in 1..Len(all_signals) :
               \E j \in 1..Len(orders) : orders[j].signal = all_signals[k]

\* the call ended in an error: an exception, or an error response of the route
CallFailed == schev.result \in {"error", "400", "409", "500"}
ScheduleKept ==
    /\ interval_seconds = schev.interval_before
    /\ schedule_type = schev.type_before
    /\ jobs = schev.jobs_before

\* C25: start on a running scheduler, by the method or by the route, fails
\* with an error and leaves the interval, the mode and the job as they were.
C25_StartWhileRunningFails ==
    (schev.op \in {"start", "start_scheduler"} /\ schev.was_running) =>
        CallFailed /\ ScheduleKept

\* C26: the scheduler reports running iff exactly one job, capped at one
\* execution in flight, is installed in an active scheduler; a start that
\* follows a stop ends running with that one job.
C26_RunningIffOneJob ==
    /\ is_running <=> (scheduler = "active" /\ jobs = 1)
    /\ instances <= 1
    /\ (schev.op = "start" /\ schev.scheduler_before = "shutdown") =>
           (is_running /\ scheduler = "active" /\ jobs = 1)

C26_Witness ==
    /\ schev.op = "start" /\ schev.scheduler_before = "shutdown"
    /\ is_running /\ jobs = 1

RunRaised == schev.op = "run_end" /\ schev.result = "raised"

\* C28: when an execution of the job has ended in an exception, the scheduler
\* is still running with its job installed, and the next fire finds no
\* execution in its way.
C28_RunExceptionContained ==
    RunRaised =>
        /\ is_running /\ scheduler = "active" /\ jobs = 1
        /\ is_running = schev.was_running /\ jobs = schev.jobs_before
        /\ instances < MaxInstances

C28_Witness == RunRaised /\ is_running /\ instances = 0

-----------------------------------------------------------------------------
(* Claims on the universe selector *)

\* C29: when the ranking request or the processing of an entry failed, the
\* selector returns the empty list and does not raise.
C29_FailureReturnsEmpty ==
    (sel_out.done /\ sel_out.error) => (sel_out.stocks = <<>> /\ ~sel_out.raised)

\* C30: in the modes "ranking" and "volume" the selector returns at most
\* max_stocks symbols, each from an entry whose change rate (in absolute
\* value) and volume both reach the thresholds of the criteria.
C30_ReturnedMeetThresholds ==
    (sel_out.done /\ sel_in.selection_mode \in {"ranking", "volume"}) =>
        /\ Len(sel_out.stocks) <= sel_in.max_stocks
        /\ \A i \in 1..Len(sel_out.picked) :
               /\ Abs(sel_out.picked[i].prdy_ctrt) >= sel_in.min_change_rate
               /\ sel_out.picked[i].acml_vol >= sel_in.min_volume

IntervalMode == is_running /\ schedule_type = "interval"
RouteAccepted == schev.op = "start_scheduler" /\ schev.result = "200"

Updated == schev.op = "update_schedule"

\* C32: update_schedule on a running scheduler gives the one job the trigger
\* of its arguments and leaves the scheduler running; on a stopped scheduler
\* it leaves interval, mode and running state as they were and installs no job.
C32_UpdateOnlyWhileRunning ==
    Updated =>
        IF schev.was_running
        THEN /\ is_running /\ scheduler = "active"
             /\ jobs = 1 /\ schev.jobs_before = 1
             /\ interval_seconds = schev.interval_arg
             /\ schedule_type = schev.type_arg
        ELSE /\ ~is_running /\ ScheduleKept /\ jobs = 0
             /\ scheduler = schev.scheduler_before

C32_Witness ==
    /\ Updated /\ schev.was_running /\ is_running
    /\ interval_seconds # schev.interval_before

-----------------------------------------------------------------------------
(* Claims on the registry of the engine *)

\* a configuration no evaluation can work with: the variants divide by the
\* period or take the last `period` prices
ConfigInvalid(strategy) == strategy.period <= 0

\* C33: register_strategy with a strategy whose configuration is invalid
\* raises and leaves the registered strategies as they were.
C33_InvalidConfigRejected ==
    (regev.op = "register_strategy" /\ ConfigInvalid(regev.strategy)) =>
        (regev.raised /\ strategies = regev.before)

-----------------------------------------------------------------------------
(* Claims on the log *)

\* C34: no record written on a failure path of the request pipeline, of the
\* token issuance or of the account query shows a credential or the account
\* number, or a part of one, in clear.
C34_NoSecretInLog ==
    \A r \in fail_out.records : \A f \in r.fragments : f.part = "redacted"

-----------------------------------------------------------------------------
(* Claims on the mean-reversion and RSI computations *)

\* the prices the instance holds for the evaluated symbol, the snapshot's included
HeldPrices == own[sev.stock_code]
EnoughHeld == Len(HeldPrices) >= MeanPeriod
\* the sum of the trailing MeanPeriod prices; the average is TrailingTotal / MeanPeriod
TrailingTotal == Sum(LastN(HeldPrices, MeanPeriod))
\* (average - price) / average > deviation_threshold, and its mirror
BelowAverage ==
    100 * (TrailingTotal - MeanPeriod * sev.current_price)
        > DeviationThresholdPct * TrailingTotal
AboveAverage ==
    100 * (MeanPeriod * sev.current_price - TrailingTotal)
        > DeviationThresholdPct * TrailingTotal
MeanEvaluated == Priced /\ variant = "mean_reversion"
\* should_sell on the snapshot of the last evaluation, asked after should_buy
SellAnswer == ShouldSell(variant, StratState, sev.stock_code, SevSnapshot).ret

\* C35: MeanReversionStrategy.should_buy returns true exactly when at least
\* period prices are held and the price is more than the deviation threshold
\* below the average of the trailing period prices; should_sell is the mirror
\* condition above the average; the two are never both true for one snapshot
C35_MeanReversionConditions ==
    MeanEvaluated =>
        /\ sev.buy <=> (EnoughHeld /\ BelowAverage)
        /\ SellAnswer <=> (EnoughHeld /\ AboveAverage)
        /\ sev.sell_called => (sev.sell <=> SellAnswer)
        /\ ~(sev.buy /\ SellAnswer)

\* should_buy answered true on a falling history
C35_Witness ==
    /\ MeanEvaluated /\ sev.buy
    /\ EnoughHeld /\ BelowAverage
    /\ sev.current_price < Head(LastN(HeldPrices, MeanPeriod))

\* the changes of the last RsiPeriod steps of a sequence contain no loss
NoLoss(prices) ==
    \A i \in 1..(Len(prices) - 1) :
        i >= Len(prices) - RsiPeriod => prices[i + 1] >= prices[i]
\* the price list of a symbol as the RSI instance holds it
RsiPrices(c) == price_history_by_stock[c]

\* C36: for every price sequence calculate_rsi returns a value in [0, 100] and
\* divides by no zero; on a sequence of at least period + 1 prices whose last
\* period changes contain no loss it returns 100
C36_RsiWithinRange ==
    variant = "rsi" =>
        \A c \in StockCodes :
            /\ RLe(FromInt(0), CalculateRsi(RsiPrices(c)))
            /\ RLe(CalculateRsi(RsiPrices(c)), FromInt(100))
            /\ 0 \notin RsiDivisors(RsiPrices(c))
            /\ (Len(RsiPrices(c)) >= RsiPeriod + 1 /\ NoLoss(RsiPrices(c))) =>
                   CalculateRsi(RsiPrices(c)) = FromInt(100)
            /\ (Priced /\ sev.stock_code = c /\ sev.ind.def) =>
                   sev.ind.fast = CalculateRsi(RsiPrices(c))

\* the RSI of a strictly increasing sequence of period + 1 live prices was computed
C36_Witness ==
    /\ variant = "rsi" /\ Priced /\ sev.ind.def
    /\ Len(RsiPrices(sev.stock_code)) >= RsiPeriod + 1
    /\ \A i \in 1..(Len(RsiPrices(sev.stock_code)) - 1) :
           RsiPrices(sev.stock_code)[i + 1] > RsiPrices(sev.stock_code)[i]
    /\ sev.ind.fast = FromInt(100)

-----------------------------------------------------------------------------
(* Claims on the market hours *)

\* the UTC offset of a datetime's zone, a naive datetime read as exchange time
UtcOffset(t) == IF t.tzinfo = "UTC" THEN 0 ELSE KoreaOffset
\* the instant in exchange-local time: minutes since Monday 00:00 of its week
LocalMinuteOfWeek(t) ==
    (t.weekday * DayMinutes + t.minute + KoreaOffset - UtcOffset(t)) % (7 * DayMinutes)
LocalWeekday(t) == LocalMinuteOfWeek(t) \div DayMinutes
LocalTimeOfDay(t) == LocalMinuteOfWeek(t) % DayMinutes
InSession(t) ==
    /\ LocalWeekday(t) < FirstWeekendDay
    /\ MarketOpenMinute <= LocalTimeOfDay(t)
    /\ LocalTimeOfDay(t) <= MarketCloseMinute

-----------------------------------------------------------------------------
(* Claims on the 401 retry *)

\* caller p leaves the refresh of a 401 answer for the resubmission, and the
\* refresh was not answered with a rate limit (the brokerage was asked for no
\* token, or issued one)
Resubmits(p) ==
    /\ pc[p] \in {"req1", "issuing"} /\ stage[p] = "req"
    /\ pc'[p] = "req2"
    /\ tev'.resp # "rate_limit"

\* C38: after a 401 answer, when the brokerage would issue a new token, the
\* single resubmission carries a newly issued token and not the token that was
\* just rejected, whether the rejected token was an expired in-memory token or a
\* token whose persisted expiry has not passed
C38_ResubmissionCarriesNewToken ==
    [][\A p \in Procs :
          Resubmits(p) =>
              /\ hdr'[p] # hdr[p]
              /\ Len(issued') = Len(issued) + 1
              /\ hdr'[p] = issued'[Len(issued')].tok]_vars

-----------------------------------------------------------------------------
(* Claims on the provenance of orders *)

\* C39: no order is submitted on the basis of synthetic data: every current
\* price and every historical bar that contributes to a signal passed to
\* place_order came from a real brokerage response, whatever the fallback flag
\* and whatever connectivity failures occurred
C39_NoOrderOnSyntheticData == \A o \in submitted : ~o.synthetic

-----------------------------------------------------------------------------
(* Claims on the frame of should_sell *)

\* the instance after should_sell is called once more on the last snapshot
AfterSellAgain == ShouldSell(variant, StratState, sev.stock_code, SevSnapshot).st

\* C40: for every strategy variant should_sell modifies no rolling history of
\* the instance (price, MACD or signal history): called again on the snapshot of
\* an evaluation it leaves the state, and so the later evaluations, as they were
C40_ShouldSellKeepsHistories ==
    Priced =>
        /\ AfterSellAgain.ph = price_history
        /\ AfterSellAgain.by = price_history_by_stock
        /\ AfterSellAgain.mh = macd_history
        /\ AfterSellAgain.sh = signal_history

====
